---- MODULE Spec2Model ----
\* Verification model of the mesh / block-tree core in src/src/mesh.cpp:
\* the load balancer, the per-rank MeshBlock lists, the AMR step and the
\* neighbor search.  Arrays are functions over 0..n-1, as in the source.
EXTENDS Integers, Sequences, FiniteSets, TLC

VARIABLES
  pc,        \* position of the driver: which call has completed
  status,    \* "ok", "fatal" (runtime_error thrown), "ub" (crashed on an invalid
             \* access) or "stale" (returned with a rank left without blocks)
  nranks,    \* Globals::nranks
  nbtotal,   \* Mesh::nbtotal
  costlist,  \* Mesh::costlist  [0..nbtotal-1]
  ranklist,  \* Mesh::ranklist  [0..nbtotal-1]
  nslist,    \* Mesh::nslist    [0..nranks-1]
  nblist,    \* Mesh::nblist    [0..nranks-1]
  tree,      \* Mesh::tree, the set of leaf locations of the block tree
  cfg,       \* the mesh settings read by the constructor (dim, root grid, levels, bcs)
  loclist,   \* Mesh::loclist   [0..nbtotal-1]; the leaves of Mesh::tree in gid order
  mb,        \* per rank: the MeshBlock objects of the rank and Mesh::pblock
  neighbor,  \* per gid: MeshBlock::neighbor[0..nneighbor-1] after SearchAndSetNeighbors
  hist,      \* history of the last AMR call (what was flagged, what was listed)
  time,      \* Mesh::time
  dt,        \* Mesh::dt
  tlim,      \* Mesh::tlim
  cfl_number,    \* Mesh::cfl_number
  new_block_dt,  \* per rank: MeshBlock::new_block_dt of the blocks of its list
  tshist,    \* history of the last NewTimeStep call (dt before it, the minimum found)
  onb,       \* Initialize: the state before the AMR step of the last warm-up pass
  proc,      \* the procedure a rank is executing (its exchange of boundary or block data)
  phase,     \* the loop of the procedure the rank is in
  pmb,       \* the loop variable: position in the list, 1..n; n+1 is NULL
  us_nb,     \* UpdateOneStep: the local nb, completions still awaited
  blk,       \* the blocks of the rank's list (in AMR: the rank's new blocks)
  oblk,      \* AMR: the rank's old blocks
  ctor,      \* Mesh::Mesh: the parameters read so far and what was derived from them
  resfile,   \* the restart file: its content, the handle and what was read from it
  xfer       \* AMR: the block data in transfer (index ranges, messages, objects)

meshvars == <<nbtotal, costlist, ranklist, nslist, nblist,
              tree, cfg, loclist, mb, neighbor, hist>>
timevars == <<time, dt, tlim, cfl_number, new_block_dt, tshist>>

\* The variables the mesh specifications leave alone.
stepvars == <<proc, phase, pmb, us_nb, blk, oblk>>
\* The variables of the constructors and of the AMR data transfer.
iovars == <<resfile, xfer>>
nonmeshvars == <<timevars, onb, stepvars, ctor, iovars>>

vars == <<pc, status, nranks, meshvars, nonmeshvars>>

----------------------------------------------------------------------------
\* Bounds of the model.
MaxRanks  == 3   \* rank counts 1..MaxRanks
MaxBlocks == 4   \* cost lists of length 1..MaxBlocks (load-balancer specification)
MaxCost   == 2   \* block costs 0..MaxCost, and one tenth

\* Content of nslist/nblist entries that were allocated but never written.
Garbage == {0, 2}

Arr(n, S) == [0..(n-1) -> S]

\* Value of a variable the specification at hand does not use.
NoValue == "none"

MeshIdle ==
  /\ nbtotal = NoValue /\ costlist = NoValue /\ ranklist = NoValue
  /\ nslist = NoValue /\ nblist = NoValue /\ tree = NoValue /\ cfg = NoValue
  /\ loclist = NoValue /\ mb = NoValue /\ neighbor = NoValue /\ hist = NoValue

TimeIdle ==
  /\ time = NoValue /\ dt = NoValue /\ tlim = NoValue /\ cfl_number = NoValue
  /\ new_block_dt = NoValue /\ tshist = NoValue

StepIdle ==
  /\ proc = NoValue /\ phase = NoValue /\ pmb = NoValue /\ us_nb = NoValue
  /\ blk = NoValue /\ oblk = NoValue

IoIdle == resfile = NoValue /\ xfer = NoValue

NonMeshIdle == TimeIdle /\ onb = NoValue /\ StepIdle /\ ctor = NoValue /\ IoIdle

\* The number of gids g with rlist[g] = r.
CountRank(rlist, r) == Cardinality({g \in DOMAIN rlist : rlist[g] = r})

----------------------------------------------------------------------------
\* The type Real, a binary floating-point type.  A Real is <<m, e>>, the
\* number m * 2^e, with m = 0 or 2^(MantissaBits-1) <= |m| < 2^MantissaBits;
\* every operation rounds its exact result to the nearest such number, ties
\* to the even mantissa.  The build's Real is double (std::min(Real, double)
\* in NewTimeStep compiles for no other type); the model keeps its rounding
\* rule on the significand of float, the widest whose sums and products fit
\* the integers of the checker.  The exponent range is not modelled.
MantissaBits == 24

\* Guard bits kept when the operands of a sum are aligned.
GuardBits == 4

Pow2(n) == IF n <= 0 THEN 1 ELSE 2 ^ n

\* The number of binary digits of n >= 0.
RECURSIVE BitLen(_)
BitLen(n) ==
  IF n >= 16 THEN 4 + BitLen(n \div 16)
  ELSE IF n >= 8 THEN 4 ELSE IF n >= 4 THEN 3 ELSE IF n >= 2 THEN 2 ELSE IF n = 1 THEN 1 ELSE 0

Abs(n) == IF n < 0 THEN -n ELSE n

RZero == <<0, 0>>

\* The Real nearest to n * 2^e, for n and e already evaluated.
RoundValue(n, e) ==
  IF n = 0 THEN RZero
  ELSE LET s == IF n < 0 THEN -1 ELSE 1
           a == Abs(n)
           b == BitLen(a)
       IN IF b <= MantissaBits
          THEN <<s * a * Pow2(MantissaBits - b), e - (MantissaBits - b)>>
          ELSE LET sh   == b - MantissaBits
                   q    == a \div Pow2(sh)
                   r    == a % Pow2(sh)
                   half == Pow2(sh - 1)
                   q1   == IF r > half \/ (r = half /\ q % 2 = 1) THEN q + 1 ELSE q
               IN IF q1 = Pow2(MantissaBits)
                  THEN <<s * Pow2(MantissaBits - 1), e + sh + 1>>
                  ELSE <<s * q1, e + sh>>

\* The Real nearest to n * 2^e, n any integer.  (The operands of every
\* operation are bound to their values before they are used.)
RRound(n, e) == CHOOSE r \in {RoundValue(a, b) : a \in {n}, b \in {e}} : TRUE

\* (Real)n of an int n.
RFromInt(n) == RRound(n, 0)

RNeg(x) == <<-x[1], x[2]>>

\* x + y for x[2] >= y[2].  Operands further apart than GuardBits are aligned
\* with a sticky bit: the sum is taken in units of half the last guard bit.
RAddOrdered(x, y) ==
  LET gap == x[2] - y[2]
  IN IF gap <= GuardBits THEN RRound(x[1] * Pow2(gap) + y[1], y[2])
     ELSE LET k  == gap - GuardBits
              sy == IF y[1] < 0 THEN -1 ELSE 1
              t  == IF k >= MantissaBits THEN 1
                    ELSE 2 * (Abs(y[1]) \div Pow2(k))
                         + (IF Abs(y[1]) % Pow2(k) # 0 THEN 1 ELSE 0)
          IN RRound(2 * x[1] * Pow2(GuardBits) + sy * t, x[2] - GuardBits - 1)

AddValues(x, y) ==
  IF x[1] = 0 THEN y
  ELSE IF y[1] = 0 THEN x
  ELSE IF x[2] >= y[2] THEN RAddOrdered(x, y) ELSE RAddOrdered(y, x)

\* x + y
RAdd(x, y) == CHOOSE r \in {AddValues(a, b) : a \in {x}, b \in {y}} : TRUE

\* x - y
RSub(x, y) == RAdd(x, RNeg(y))

DivValue(x, k) ==
  LET a == Abs(x[1]) * Pow2(GuardBits + 1)
      t == 2 * (a \div k) + (IF a % k # 0 THEN 1 ELSE 0)
  IN IF k = 1 THEN x
     ELSE RRound((IF x[1] < 0 THEN -1 ELSE 1) * t, x[2] - GuardBits - 2)

\* x / k for an int k in 1..10 (converted to Real without error).
RDivInt(x, k) == CHOOSE r \in {DivValue(a, k) : a \in {x}} : TRUE

\* x * y: the mantissas are multiplied in halves of HalfBits bits; the
\* product is kept to three bits below its upper part, and a sticky bit.
HalfBits == 12

MulValues(x, y) ==
  LET a    == Abs(x[1])
      b    == Abs(y[1])
      h    == Pow2(HalfBits)
      a1   == a \div h
      a0   == a % h
      b1   == b \div h
      b0   == b % h
      mid  == a1 * b0 + a0 * b1
      low  == a0 * b0 + (mid % h) * h
      high == a1 * b1 + mid \div h + low \div (h * h)
      rest == low % (h * h)
      cut  == Pow2(2 * HalfBits - 3)
      n    == 2 * (high * 8 + rest \div cut) + (IF rest % cut # 0 THEN 1 ELSE 0)
      sg   == IF (x[1] < 0) = (y[1] < 0) THEN 1 ELSE -1
  IN IF a = 0 \/ b = 0 THEN RZero
     ELSE RRound(sg * n, x[2] + y[2] + 2 * HalfBits - 4)

RMul(x, y) == CHOOSE r \in {MulValues(a, b) : a \in {x}, b \in {y}} : TRUE

\* The smaller of x and y (std::min: y only if y < x).
RMin(x, y) == IF RSub(y, x)[1] < 0 THEN y ELSE x

\* n / d as a Real, for small ints.
RRatio(n, d) == RDivInt(RFromInt(n), d)

\* x >= y, x > y : the difference of two different Reals is never rounded to 0.
RGe(x, y) == RSub(x, y)[1] >= 0
RGt(x, y) == RSub(x, y)[1] > 0

----------------------------------------------------------------------------
\* Mesh::LoadBalancing, in the Real arithmetic of the source.

\* The test that closes the share of rank j.
LBAdvance(mycost, targetcost, j) == RGe(mycost, targetcost) /\ j > 0

\* Mutant: the rank is written after the share has been closed, so the block
\* that closes a share is booked on the next rank.
RECURSIVE LBAssign_Late(_, _, _, _, _, _, _)
LBAssign_Late(clist, i, j, totalcost, targetcost, mycost, rlist) ==
  IF i < 0 THEN [thrown |-> FALSE, rlist |-> rlist]
  ELSE IF targetcost = RZero THEN [thrown |-> TRUE, rlist |-> rlist]
  ELSE LET my == RAdd(mycost, clist[i])
       IN IF LBAdvance(my, targetcost, j)
          THEN LBAssign_Late(clist, i - 1, j - 1, RSub(totalcost, my),
                             RDivInt(RSub(totalcost, my), j), RZero,
                             [rlist EXCEPT ![i] = j - 1])
          ELSE LBAssign_Late(clist, i - 1, j, totalcost, targetcost, my,
                             [rlist EXCEPT ![i] = j])

\* The first loop, from gid i down to 0; the result is [thrown, rlist].
\* (mycost+=clist[i] and rlist[i]=j are evaluated once per iteration.)
RECURSIVE LBAssign(_, _, _, _, _, _, _)
LBAssign(clist, i, j, totalcost, targetcost, mycost, rlist) ==
  IF i < 0 THEN [thrown |-> FALSE, rlist |-> rlist]
  ELSE IF targetcost = RZero THEN [thrown |-> TRUE, rlist |-> rlist]
  ELSE CHOOSE res \in
         {IF LBAdvance(my, tc, j)
          THEN LBAssign(cl, i - 1, j - 1, RSub(tot, my),
                        RDivInt(RSub(tot, my), j), RZero, rl)
          ELSE LBAssign(cl, i - 1, j, tot, tc, my, rl) :
            cl \in {clist}, my \in {RAdd(mycost, clist[i])},
            rl \in {[rlist EXCEPT ![i] = j]}, tot \in {totalcost},
            tc \in {targetcost}} : TRUE

\* "totalcost+=clist[i]" for i = 0 .. n-1, from 0.
RECURSIVE SumTo(_, _)
SumTo(clist, n) == IF n = 0 THEN RZero ELSE RAdd(SumTo(clist, n - 1), clist[n - 1])

\* The second loop: start gid and block count of each run of equal ranks.
\* slist and nlist are the caller's nslist and nblist (every call site passes
\* the members, so "nslist[j]" in the loop body is slist[j]).
RECURSIVE LBCompact(_, _, _, _, _, _)
LBCompact(rlist, nb, i, j, slist, nlist) ==
  IF i >= nb THEN [slist |-> slist, nlist |-> [nlist EXCEPT ![j] = nb - slist[j]]]
  ELSE IF rlist[i] # rlist[i - 1]
       THEN LBCompact(rlist, nb, i + 1, j + 1,
                      [slist EXCEPT ![j + 1] = i],
                      [nlist EXCEPT ![j] = i - slist[j]])
       ELSE LBCompact(rlist, nb, i + 1, j, slist, nlist)

LBLists(a, slist0, nlist0, nb) ==
  IF a.thrown
  THEN [thrown |-> TRUE, rlist |-> a.rlist, slist |-> slist0, nlist |-> nlist0]
  ELSE CHOOSE res \in
         {[thrown |-> FALSE, rlist |-> a.rlist, slist |-> c.slist, nlist |-> c.nlist] :
            c \in {LBCompact(a.rlist, nb, 1, 0, [slist0 EXCEPT ![0] = 0], nlist0)}} : TRUE

LoadBalancing(clist, rlist0, slist0, nlist0, nb, R) ==
  CHOOSE res \in
    {LBLists(a, s0, n0, nb) :
       a \in {LBAssign(cl, nb - 1, R - 1, total, RDivInt(total, R), RZero, rlist0) :
                cl \in {clist}, total \in {SumTo(clist, nb)}},
       s0 \in {slist0}, n0 \in {nlist0}} : TRUE

----------------------------------------------------------------------------
\* The costs of the model: the integers 0..MaxCost and (Real)0.1.
Costs == {RFromInt(k) : k \in 0..MaxCost} \cup {RRatio(1, 10)}

\* Specification SpecLB: the load balancer applied to every bounded input.
\* The lists are allocated (new int[...]) and the cost list is filled, as in
\* both constructors; the restart constructor reads arbitrary costs.
InitLB ==
  /\ pc = "alloc"
  /\ status = "ok"
  /\ nranks \in 1..MaxRanks
  /\ nbtotal \in 1..MaxBlocks
  /\ costlist \in Arr(nbtotal, Costs)
  /\ ranklist = [g \in 0..(nbtotal - 1) |-> -1]
  /\ \E s \in Garbage, b \in Garbage :
       /\ nslist = [r \in 0..(nranks - 1) |-> s]
       /\ nblist = [r \in 0..(nranks - 1) |-> b]
  /\ tree = NoValue /\ cfg = NoValue /\ loclist = NoValue /\ mb = NoValue
  /\ neighbor = NoValue /\ hist = NoValue
  /\ NonMeshIdle

CallLoadBalancing ==
  /\ pc = "alloc"
  /\ \E lb \in {LoadBalancing(costlist, ranklist, nslist, nblist, nbtotal, nranks)} :
        /\ ranklist' = lb.rlist
        /\ nslist' = lb.slist
        /\ nblist' = lb.nlist
        /\ status' = IF lb.thrown THEN "fatal" ELSE "ok"
  /\ pc' = "balanced"
  /\ UNCHANGED <<nranks, nbtotal, costlist, tree, cfg, loclist, mb, neighbor, hist>>
  /\ UNCHANGED nonmeshvars

NextLB == CallLoadBalancing

SpecLB == InitLB /\ [][NextLB]_vars

Returned == pc = "balanced" /\ status = "ok"

Ranks == 0..(nranks - 1)
Gids  == 0..(nbtotal - 1)

RECURSIVE SumArr(_, _)
SumArr(a, n) == IF n = 0 THEN 0 ELSE a[n - 1] + SumArr(a, n - 1)

\* nslist/nblist describe ranklist: every rank owns at least one block, the
\* counts add up, and each rank's gids are counted and started correctly.
BalanceCoverage ==
  /\ \A r \in Ranks : nblist[r] >= 1
  /\ SumArr(nblist, nranks) = nbtotal
  /\ \A r \in Ranks : CountRank(ranklist, r) = nblist[r]
  /\ \A r \in Ranks : \A g \in Gids :
        ranklist[g] = r => (nslist[r] <= g /\ ranklist[nslist[r]] = r)

\* C1 (as claimed): whenever LoadBalancing returns without raising an error,
\* every rank has nblist[r] >= 1, the nblist entries sum to the number of
\* blocks, the number of gids with ranklist[g] = r is nblist[r], and nslist[r]
\* is the first gid of rank r.  Violated: with 2 blocks of cost 1 and 3 ranks
\* the call returns and rank 0 owns no gid.
C1_BalanceCoverage == Returned => BalanceCoverage

\* C2 (as claimed): if the assignment leaves a rank with zero blocks, the call
\* ends in the fatal error instead of returning.  Violated: the only test is
\* "targetcost == 0.0" at the head of an iteration, which a short or skewed
\* list never meets.
C2_EmptyRankIsFatal ==
  (pc = "balanced" /\ \E r \in Ranks : CountRank(ranklist, r) = 0) => status = "fatal"

\* C10: whenever LoadBalancing returns (the total cost is then positive), the
\* assignment is monotone in gid, so each rank's gids are one interval, and
\* the highest gid is assigned to rank R-1.
C10_MonotoneAssignment ==
  Returned =>
    /\ RGt(SumTo(costlist, nbtotal), RZero)
    /\ \A g, h \in Gids : g < h => ranklist[g] <= ranklist[h]
    /\ \A g \in Gids : ranklist[g] \in Ranks
    /\ ranklist[nbtotal - 1] = nranks - 1

\* Witness of C10: a returned assignment that uses three different ranks.
C10_Witness ==
  /\ Returned
  /\ nbtotal >= 3
  /\ Cardinality({ranklist[g] : g \in Gids}) >= 3

\* The cost list is uniform: every block has the cost of block 0, not zero.
UniformCosts == costlist[0] # RZero /\ \A g \in Gids : costlist[g] = costlist[0]

\* C11 (as claimed): with uniform costs and at least as many blocks as ranks
\* the call does not refuse, and the block counts of the ranks are
\* non-decreasing in rank and differ by at most one.  Violated: three blocks
\* of cost (Real)0.1 on three ranks; the rounded sum of the costs divided by
\* 3 exceeds the cost of one block, so rank 2 takes two blocks and rank 0 none.
C11_UniformEvenSplit ==
  (pc = "balanced" /\ UniformCosts /\ nbtotal >= nranks) =>
    /\ status = "ok"
    /\ \A r \in Ranks : r + 1 \in Ranks =>
          CountRank(ranklist, r) <= CountRank(ranklist, r + 1)
    /\ \A q, r \in Ranks : CountRank(ranklist, q) - CountRank(ranklist, r) <= 1

----------------------------------------------------------------------------
\* LogicalLocation and the block tree (MeshBlockTree, meshblocktree.hpp: its
\* code is outside src/, so the tree operations follow the specification's
\* sections 3 and 4.1).  A tree is the set of its leaf locations; a node
\* exists when it is a leaf or an ancestor of one.

NULL == [null |-> TRUE]

Loc(l, x1, x2, x3) == [level |-> l, lx1 |-> x1, lx2 |-> x2, lx3 |-> x3]


Range(f) == {f[x] : x \in DOMAIN f}

\* Boundary-condition slots (enum in athena.hpp) and the periodic code.
inner_x1 == 0
outer_x1 == 1
inner_x2 == 2
outer_x2 == 3
inner_x3 == 4
outer_x3 == 5
PeriodicBC == 4
OutflowBC == 2

\* The 2^dim children of a node, in enumeration order: x1 fastest, x3 slowest.
ChildSeq(loc, dim) ==
  [c \in 1..Pow2(dim) |->
     Loc(loc.level + 1, 2 * loc.lx1 + ((c - 1) % 2),
         2 * loc.lx2 + (((c - 1) \div 2) % 2), 2 * loc.lx3 + ((c - 1) \div 4))]

Children(loc, dim) == Range(ChildSeq(loc, dim))

ParentLoc(loc) == Loc(loc.level - 1, loc.lx1 \div 2, loc.lx2 \div 2, loc.lx3 \div 2)

AncestorAt(loc, lev) ==
  LET sh == Pow2(loc.level - lev)
  IN Loc(lev, loc.lx1 \div sh, loc.lx2 \div sh, loc.lx3 \div sh)

\* A node that has leaves below it.
IsInternal(T, loc) ==
  \E l \in T : l.level > loc.level /\ AncestorAt(l, loc.level) = loc

\* create_root: the root grid, nrbx1 x nrbx2 x nrbx3 leaves at root_level.
CreateRootGrid(c) ==
  {Loc(c.root_level, i, j, k) :
     i \in 0..(c.nrbx1 - 1), j \in 0..(c.nrbx2 - 1), k \in 0..(c.nrbx3 - 1)}

\* The offsets (ox1, ox2, ox3) of the neighbors of a block in dim dimensions.
Dirs(dim) ==
  {o \in [1..3 -> -1..1] :
     /\ o # [i \in 1..3 |-> 0]
     /\ (dim < 2 => o[2] = 0)
     /\ (dim < 3 => o[3] = 0)}

\* One coordinate moved by ox on a level of n blocks: wrapped when the
\* boundary code met is periodic, -1 (no neighbor) otherwise.
Shift(lx, ox, n, bin, bout) ==
  IF lx + ox < 0 THEN (IF bin = PeriodicBC THEN n - 1 ELSE -1)
  ELSE IF lx + ox >= n THEN (IF bout = PeriodicBC THEN 0 ELSE -1)
  ELSE lx + ox

\* The location next to loc in direction o on loc's own level, or NULL.
NeighborLoc(c, loc, o, bcs) ==
  LET n  == Pow2(loc.level - c.root_level)
      x1 == Shift(loc.lx1, o[1], c.nrbx1 * n, bcs[inner_x1], bcs[outer_x1])
      x2 == Shift(loc.lx2, o[2], c.nrbx2 * n, bcs[inner_x2], bcs[outer_x2])
      x3 == Shift(loc.lx3, o[3], c.nrbx3 * n, bcs[inner_x3], bcs[outer_x3])
  IN IF x1 < 0 \/ x2 < 0 \/ x3 < 0 THEN NULL ELSE Loc(loc.level, x1, x2, x3)

\* find_leaf: the leaf at loc, or the finest ancestor leaf covering it; NULL
\* when loc is an internal node (or outside the tree).
RECURSIVE FindLeaf(_, _)
FindLeaf(T, loc) ==
  IF loc \in T THEN loc
  ELSE IF loc.level = 0 THEN NULL
  ELSE FindLeaf(T, ParentLoc(loc))

\* find_neighbor: the node adjacent to loc in direction o: a leaf of the same
\* or a coarser level (flag TRUE), an internal node holding finer leaves
\* (flag FALSE), or NULL outside a non-periodic mesh.
FindNeighbor(T, c, loc, o, bcs) ==
  LET t == NeighborLoc(c, loc, o, bcs)
  IN IF t = NULL THEN NULL
     ELSE IF IsInternal(T, t) THEN [loc |-> t, flag |-> FALSE]
     ELSE LET lf == FindLeaf(T, t)
          IN IF lf = NULL THEN NULL ELSE [loc |-> lf, flag |-> TRUE]

\* refine: the leaf becomes an internal node with 2^dim children; every
\* neighbor leaf one level coarser is refined as well (cascading, 2:1).
RECURSIVE Refine(_, _, _)
RECURSIVE RefineSet(_, _, _)
Refine(T, c, loc) ==
  IF loc \notin T THEN T
  ELSE LET T1 == (T \ {loc}) \cup Children(loc, c.dim)
           nb == {NeighborLoc(c, loc, o, c.bcs) : o \in Dirs(c.dim)} \ {NULL}
           coarse == {ParentLoc(n) : n \in nb} \cap T1
       IN RefineSet(T1, c, coarse)
RefineSet(T, c, S) ==
  IF S = {} THEN T
  ELSE LET x == CHOOSE y \in S : TRUE
       IN RefineSet(Refine(T, c, x), c, S \ {x})

\* derefine: the 2^dim sibling leaves of parent p collapse into p; refused
\* when a child is not a leaf or a node next to a child holds finer leaves.
Derefine(T, c, p) ==
  LET ch == Children(p, c.dim)
      blocked == \E k \in ch : \E o \in Dirs(c.dim) :
                   LET q == NeighborLoc(c, k, o, c.bcs)
                   IN q # NULL /\ q \notin ch /\ IsInternal(T, q)
  IN IF ch \subseteq T /\ ~blocked THEN (T \ ch) \cup {p} ELSE T

\* enumerate_leaves (GetMeshBlockList): pre-order flattening of the tree.
RECURSIVE TreeList(_, _, _)
RECURSIVE TreeListFrom(_, _, _, _)
TreeList(T, dim, node) ==
  IF node \in T THEN <<node>>
  ELSE IF ~IsInternal(T, node) THEN <<>>
  ELSE TreeListFrom(T, dim, ChildSeq(node, dim), 1)
TreeListFrom(T, dim, cs, i) ==
  IF i > Len(cs) THEN <<>>
  ELSE TreeList(T, dim, cs[i]) \o TreeListFrom(T, dim, cs, i + 1)

\* The leaf list as the 0-based array GetMeshBlockList fills.
GetMeshBlockList(T, dim) ==
  LET sq == TreeList(T, dim, Loc(0, 0, 0, 0))
  IN [g \in 0..(Len(sq) - 1) |-> sq[g + 1]]

\* The gid a leaf carries after GetMeshBlockList filled list ll.
GidOf(ll, loc) == CHOOSE g \in DOMAIN ll : ll[g] = loc

\* The width of int, in bits.
IntBits == 32

\* nrbx<<(ll-root_level), an int shifted by k.  The result is defined when
\* it fits an int; wild is what the build yields otherwise.
ShiftedExtent(nrb, k, wild) ==
  IF BitLen(nrb) + k < IntBits THEN nrb * Pow2(k) ELSE wild

\* What a shift by k >= IntBits can yield: the count taken modulo the width
\* (x86), or every bit shifted out.
WildExtents(nrb, k) == {nrb * Pow2(k % IntBits), 0}

\* Mesh::SetBlockSizeAndBoundaries, the boundary codes: the mesh's code on a
\* face lying on the mesh boundary and in inactive dimensions, -1 inside.
\* wild[a]: the outcome of an undefined shift on axis a.
SetBlockSizeAndBoundaries(c, loc, wild) ==
  LET k == loc.level - c.root_level
  IN [b \in 0..5 |->
       CASE b = inner_x1 -> IF loc.lx1 = 0 THEN c.bcs[b] ELSE -1
         [] b = outer_x1 -> IF loc.lx1 = ShiftedExtent(c.nrbx1, k, wild[1]) - 1
                            THEN c.bcs[b] ELSE -1
         [] b = inner_x2 -> IF c.dim < 2 \/ loc.lx2 = 0 THEN c.bcs[b] ELSE -1
         [] b = outer_x2 -> IF c.dim < 2 \/ loc.lx2 = ShiftedExtent(c.nrbx2, k, wild[2]) - 1
                            THEN c.bcs[b] ELSE -1
         [] b = inner_x3 -> IF c.dim < 3 \/ loc.lx3 = 0 THEN c.bcs[b] ELSE -1
         [] OTHER        -> IF c.dim < 3 \/ loc.lx3 = ShiftedExtent(c.nrbx3, k, wild[3]) - 1
                            THEN c.bcs[b] ELSE -1]

\* The same for the blocks of the mesh specifications, whose levels are
\* within MaxRefine of the root level: no shift is undefined there.
SetBlockBoundaries(c, loc) == SetBlockSizeAndBoundaries(c, loc, <<0, 0, 0>>)

----------------------------------------------------------------------------
\* The MeshBlock list of a rank.  The objects of a rank are a sequence of
\* records; a pointer is an index into it, 0 is the null pointer and DEAD is
\* the address of a MeshBlock that has been destroyed.

DEAD == -1

\* MeshBlock::MeshBlock: prev and next start null.
NewMeshBlock(igid, ilid, iloc) ==
  [gid |-> igid, lid |-> ilid, loc |-> iloc, prev |-> 0, next |-> 0]

\* Mesh::Mesh, "create MeshBlock list for this process": blocks nbs..nbe are
\* created in order and each is linked behind the one before it.
BuildBlockList(ll, nbs, nbe) ==
  [obj |-> [k \in 1..(nbe - nbs + 1) |->
              [NewMeshBlock(nbs + k - 1, k - 1, ll[nbs + k - 1])
                 EXCEPT !.prev = k - 1,
                        !.next = IF k = nbe - nbs + 1 THEN 0 ELSE k + 1]],
   pblock |-> IF nbe >= nbs THEN 1 ELSE 0]

\* The pointers met from p by following next (p first).
RECURSIVE Chain(_, _)
Chain(obj, p) == IF p = 0 THEN <<>> ELSE <<p>> \o Chain(obj, obj[p].next)

\* Mesh::FindMeshBlock: the block of the list at pblock whose gid is tgid, or null.
RECURSIVE FindMeshBlockFrom(_, _, _)
FindMeshBlockFrom(obj, pbl, tgid) ==
  IF pbl = 0 THEN 0
  ELSE IF obj[pbl].gid = tgid THEN pbl
  ELSE FindMeshBlockFrom(obj, obj[pbl].next, tgid)

FindMeshBlock(h, tgid) == FindMeshBlockFrom(h.obj, h.pblock, tgid)

----------------------------------------------------------------------------
\* Mesh::AdaptiveMeshRefinement.  All ranks run the call on replicated lists;
\* the model runs it as one step over all ranks.

ZeroBased(sq) == [g \in 0..(Len(sq) - 1) |-> sq[g + 1]]

\* The MeshBlocks of a rank in list order (the "while(pmb!=NULL)" walks).
ListObjs(h) ==
  LET ch == Chain(h.obj, h.pblock) IN [k \in 1..Len(ch) |-> h.obj[ch[k]]]

\* The locations of the blocks whose refine_flag_ is v, gathered rank by rank.
RECURSIVE GatherLocs(_, _, _, _)
GatherLocs(m, R, flag, v) ==
  IF R = 0 THEN <<>>
  ELSE LET os == SelectSeq(ListObjs(m[R - 1]), LAMBDA o : flag[o.gid] = v)
       IN GatherLocs(m, R - 1, flag, v) \o [k \in 1..Len(os) |-> os[k].loc]

\* One pass of the i/j/k loop: entry r = n+c of lderef is the c-th sibling of
\* entry n.  A read at r >= tnderef is beyond the array; its outcome is oob.
SiblingHit(lderef, tnderef, n, c, oob) ==
  LET r == n + c
  IN IF r >= tnderef THEN oob
     ELSE /\ lderef[n].lx1 + (c % 2) = lderef[r].lx1
          /\ lderef[n].lx2 + ((c \div 2) % 2) = lderef[r].lx2
          /\ lderef[n].lx3 + (c \div 4) = lderef[r].lx3
          /\ lderef[n].level = lderef[r].level

\* The indices r at which the scan reads lderef[r]: n .. n+nlbl-1 for every
\* entry n of even parity ("r++" after each comparison, r never tested
\* against tnderef); none when tnderef <= nlbl.
ScanReads(lderef, tnderef, nlbl) ==
  IF tnderef > nlbl
  THEN UNION {n..(n + nlbl - 1) :
                n \in {m \in 0..(tnderef - 1) :
                         /\ lderef[m].lx1 % 2 = 0 /\ lderef[m].lx2 % 2 = 0
                         /\ lderef[m].lx3 % 2 = 0}}
  ELSE {}

\* "calculate the list of the newly derefined blocks": clderef as a sequence.
RECURSIVE DerefCandidates(_, _, _, _, _, _)
DerefCandidates(lderef, tnderef, nlbl, n, oob, cl) ==
  IF n >= tnderef THEN cl
  ELSE IF /\ lderef[n].lx1 % 2 = 0 /\ lderef[n].lx2 % 2 = 0 /\ lderef[n].lx3 % 2 = 0
          /\ \A c \in 0..(nlbl - 1) : SiblingHit(lderef, tnderef, n, c, oob)
       THEN DerefCandidates(lderef, tnderef, nlbl, n + 1, oob,
                            Append(cl, ParentLoc(lderef[n])))
       ELSE DerefCandidates(lderef, tnderef, nlbl, n + 1, oob, cl)

\* LogicalLocation::Greater orders by level, deepest first.
RECURSIVE SortByLevel(_)
SortByLevel(sq) ==
  IF Len(sq) <= 1 THEN sq
  ELSE LET m == CHOOSE i \in 1..Len(sq) :
                  \A k \in 1..Len(sq) :
                    /\ sq[k].level <= sq[i].level
                    /\ (sq[k].level = sq[i].level => i <= k)
       IN <<sq[m]>> \o SortByLevel(SubSeq(sq, 1, m - 1) \o SubSeq(sq, m + 1, Len(sq)))

\* std::sort(clderef, &clderef[ctnd-1], Greater): the end iterator is the last
\* element, so the first ctnd-1 entries are sorted and the last stays.
SortCandidates(cl) ==
  IF Len(cl) > 1
  THEN SortByLevel(SubSeq(cl, 1, Len(cl) - 1)) \o <<cl[Len(cl)]>>
  ELSE cl

\* Step 1 and Step 2 of the tree manipulation.
RECURSIVE RefineAll(_, _, _, _)
RefineAll(T, c, lref, n) ==
  IF n > Len(lref) THEN T ELSE RefineAll(Refine(T, c, lref[n]), c, lref, n + 1)

RECURSIVE DerefineAll(_, _, _, _)
DerefineAll(T, c, cl, n) ==
  IF n > Len(cl) THEN T ELSE DerefineAll(Derefine(T, c, cl[n]), c, cl, n + 1)

\* newtoold as GetMeshBlockList fills it: the old gid of a kept leaf, of the
\* refined parent of a new child, of the first child of a derefined parent.
NewToOld(Told, oldll, newll, dim) ==
  [n \in DOMAIN newll |->
     LET l == newll[n]
     IN IF l \in Told THEN GidOf(oldll, l)
        ELSE IF IsInternal(Told, l) THEN GidOf(oldll, TreeList(Told, dim, l)[1])
        ELSE GidOf(oldll, FindLeaf(Told, l))]

\* NewCost without the averaging: the cost of the first child is taken.
NewCost_FirstChild(clist, oldll, newll, newtoold, nlbl) ==
  [n \in DOMAIN newll |-> clist[newtoold[n]]]

\* The cost of each new block: inherited, or the mean of the nlbl children.
NewCost(clist, oldll, newll, newtoold, nlbl) ==
  [n \in DOMAIN newll |->
     LET pg == newtoold[n]
     IN IF newll[n].level >= oldll[pg].level THEN clist[pg]
        ELSE RDivInt(SumTo([l \in 0..(nlbl - 1) |-> clist[pg + l]], nlbl), nlbl)]

\* What a read beyond newloc yields when the run survives it.
WildLoc == Loc(-1, -1, -1, -1)

\* Step 7, "on the same node and same level -> just move it".  st holds the
\* rank's objects, pblock, newlist, pmb and bad (an invalid pointer was used).
\* pob->prev is reset only on the path "not first".
MoveBlock(st, n, nbs, on) ==
  LET pob == FindMeshBlockFrom(st.obj, st.pblock, on)
  IN IF pob = 0 \/ st.obj[pob].prev = DEAD THEN [st EXCEPT !.bad = TRUE]
     ELSE LET o    == st.obj[pob]
              obj1 == IF o.prev = 0 THEN st.obj
                      ELSE [st.obj EXCEPT ![o.prev].next = o.next]
              pbl1 == IF o.prev = 0 THEN o.next ELSE st.pblock
              obj2 == IF o.next # 0 THEN [obj1 EXCEPT ![o.next].prev = o.prev] ELSE obj1
              obj3 == IF n = nbs THEN obj2
                      ELSE [obj2 EXCEPT ![st.pmb].next = pob, ![pob].prev = st.pmb]
          IN [st EXCEPT !.obj = [obj3 EXCEPT ![pob].next = 0, ![pob].gid = n,
                                             ![pob].lid = n - nbs],
                        !.pblock = pbl1,
                        !.newlist = IF n = nbs THEN pob ELSE st.newlist,
                        !.pmb = pob]

\* Step 7, "on a different level or node - create a new block".
CreateBlock(st, n, nbs, loc) ==
  LET id   == Len(st.obj) + 1
      obj1 == Append(st.obj, [NewMeshBlock(n, n - nbs, loc)
                                EXCEPT !.prev = IF n = nbs THEN 0 ELSE st.pmb])
  IN [st EXCEPT !.obj = IF n = nbs THEN obj1 ELSE [obj1 EXCEPT ![st.pmb].next = id],
                !.newlist = IF n = nbs THEN id ELSE st.newlist,
                !.pmb = id]

\* The local sources of a created block are looked up with FindMeshBlock and
\* dereferenced: TRUE when one of them is not in the list.
SourceMissing(st, me, on, oldlev, newlev, oldrank, nlbl) ==
  IF oldlev > newlev
  THEN \E ll \in 0..(nlbl - 1) :
         /\ oldrank[on + ll] = me
         /\ FindMeshBlockFrom(st.obj, st.pblock, on + ll) = 0
  ELSE /\ oldlev < newlev
       /\ oldrank[on] = me
       /\ FindMeshBlockFrom(st.obj, st.pblock, on) = 0

\* One iteration of the Step 7 loop on rank me.  An index n >= ntot reads
\* newtoold and newloc beyond their end: the run crashes, or (oob) goes on
\* with a block made from what was read.
Step7Block(st, n, nbs, me, w, oob) ==
  IF st.bad THEN st
  ELSE IF n >= w.ntot
       THEN IF oob THEN CreateBlock(st, n, nbs, WildLoc) ELSE [st EXCEPT !.bad = TRUE]
  ELSE LET on == w.newtoold[n]
       IN IF w.ranklist[on] = me /\ w.loclist[on].level = w.newloc[n].level
          THEN MoveBlock(st, n, nbs, on)
          ELSE LET st1 == CreateBlock(st, n, nbs, w.newloc[n])
               IN IF SourceMissing(st1, me, on, w.loclist[on].level,
                                   w.newloc[n].level, w.ranklist, w.nlbl)
                  THEN [st1 EXCEPT !.bad = TRUE] ELSE st1

RECURSIVE Step7Loop(_, _, _, _, _, _, _)
Step7Loop(st, n, nbs, nbe, me, w, oob) ==
  IF n > nbe THEN st
  ELSE Step7Loop(Step7Block(st, n, nbs, me, w, oob), n + 1, nbs, nbe, me, w, oob)

\* "discard remaining MeshBlocks": ~MeshBlock writes prev->next and
\* next->prev; the head is deleted last, and a head whose prev is not null
\* has the address of a destroyed block there.
DiscardBad(st) == st.pblock # 0 /\ st.obj[st.pblock].prev # 0

\* The rank's objects after "pblock=newlist": the blocks of the new list,
\* renumbered in list order; a pointer to a discarded block becomes DEAD.
InstallList(st) ==
  LET ch     == Chain(st.obj, st.newlist)
      pos(q) == IF q = 0 THEN 0
                ELSE IF \E k \in 1..Len(ch) : ch[k] = q
                     THEN CHOOSE k \in 1..Len(ch) : ch[k] = q
                     ELSE DEAD
  IN [obj |-> [k \in 1..Len(ch) |->
                 [st.obj[ch[k]] EXCEPT !.prev = pos(@), !.next = pos(@)]],
      pblock |-> IF st.newlist = 0 THEN 0 ELSE 1]

\* For each block of the new list, in list order: the old object it is (its
\* position among the nold objects the rank had), or 0 for a block made by new.
Origins(st, nold) ==
  LET ch == Chain(st.obj, st.newlist)
  IN [k \in 1..Len(ch) |-> IF ch[k] <= nold THEN ch[k] ELSE 0]

\* Steps 7 and 8 on rank me: [bad, h, from].  pblock->block_size is read first.
RebuildRank(h, me, w, oob) ==
  LET nbs == w.nslist[me]
      nbe == nbs + w.nblist[me] - 1
      st0 == [obj |-> h.obj, pblock |-> h.pblock, newlist |-> 0, pmb |-> 0,
              bad |-> (h.pblock = 0)]
      st1 == Step7Loop(st0, nbs, nbs, nbe, me, w, oob)
  IN IF st1.bad \/ DiscardBad(st1) THEN [bad |-> TRUE, h |-> h, from |-> <<>>]
     ELSE [bad |-> FALSE, h |-> InstallList(st1), from |-> Origins(st1, Len(h.obj))]

----------------------------------------------------------------------------
\* The buffer-id catalogue (BufferID / FindBufferID of the boundary module:
\* outside src/, modelled from the specification's sections 4.2 and 4.3 as
\* the canonical enumeration of the slots).

Off(a, b, d) == [i \in 1..3 |-> IF i = 1 THEN a ELSE IF i = 2 THEN b ELSE d]

\* Fine slots per face: nf1 * nf2; per x1x2 edge: nf2; per other edge: nf1.
Nf1(c) == IF c.multilevel /\ c.dim >= 2 THEN 2 ELSE 1
Nf2(c) == IF c.multilevel /\ c.dim >= 3 THEN 2 ELSE 1

\* The directions in enumeration order, each with its number of fine slots
\* and its kind.
FaceDirs(c) ==
  <<Off(-1, 0, 0), Off(1, 0, 0)>>
  \o (IF c.dim >= 2 THEN <<Off(0, -1, 0), Off(0, 1, 0)>> ELSE <<>>)
  \o (IF c.dim >= 3 THEN <<Off(0, 0, -1), Off(0, 0, 1)>> ELSE <<>>)

PlaneDirs(plane) ==
  [k \in 1..4 |->
     LET n == 2 * ((k - 1) % 2) - 1
         m == 2 * ((k - 1) \div 2) - 1
     IN IF plane = "x1x2" THEN Off(n, m, 0)
        ELSE IF plane = "x1x3" THEN Off(n, 0, m) ELSE Off(0, n, m)]

CornerDirs ==
  [k \in 1..8 |->
     Off(2 * ((k - 1) % 2) - 1, 2 * (((k - 1) \div 2) % 2) - 1, 2 * ((k - 1) \div 4) - 1)]

Visit(o, kind, plane, slots) == [o |-> o, kind |-> kind, plane |-> plane, slots |-> slots]

Visits(c) ==
  LET f  == FaceDirs(c)
      e  == IF c.face_only \/ c.dim < 2 THEN <<>>
            ELSE [k \in 1..4 |-> Visit(PlaneDirs("x1x2")[k], "edge", "x1x2", Nf2(c))]
               \o (IF c.dim < 3 THEN <<>>
                   ELSE [k \in 1..4 |-> Visit(PlaneDirs("x1x3")[k], "edge", "x1x3", Nf1(c))]
                     \o [k \in 1..4 |-> Visit(PlaneDirs("x2x3")[k], "edge", "x2x3", Nf1(c))])
      cn == IF c.face_only \/ c.dim < 3 THEN <<>>
            ELSE [k \in 1..8 |-> Visit(CornerDirs[k], "corner", "", 1)]
  IN [k \in 1..Len(f) |-> Visit(f[k], "face", "", Nf1(c) * Nf2(c))] \o e \o cn

\* The slots: one entry (o, fi1, fi2) per buffer id, in order.
RECURSIVE SlotsFrom(_, _, _)
SlotsFrom(c, vs, k) ==
  IF k > Len(vs) THEN <<>>
  ELSE [s \in 1..vs[k].slots |->
          [o |-> vs[k].o,
           fi1 |-> IF vs[k].kind = "face" THEN (s - 1) % Nf1(c) ELSE s - 1,
           fi2 |-> IF vs[k].kind = "face" THEN (s - 1) \div Nf1(c) ELSE 0]]
       \o SlotsFrom(c, vs, k + 1)

BufferCatalog(c) == SlotsFrom(c, Visits(c), 1)

\* BufferID: the number of slots (maxneighbor_).
BufferID(c) == Len(BufferCatalog(c))

\* FindBufferID: the id of the slot (ox1, ox2, ox3, fi1, fi2), -1 when none.
FindBufferID(c, o, fi1, fi2) ==
  LET cat == BufferCatalog(c)
      hit == {k \in 1..Len(cat) : cat[k] = [o |-> o, fi1 |-> fi1, fi2 |-> fi2]}
  IN IF hit = {} THEN -1 ELSE (CHOOSE k \in hit : TRUE) - 1

----------------------------------------------------------------------------
\* MeshBlock::SearchAndSetNeighbors.

\* MeshBlockTree::GetLeaf on an internal node: the child (ox1, ox2, ox3).
GetLeaf(node, ox1, ox2, ox3) ==
  Loc(node.level + 1, 2 * node.lx1 + ox1, 2 * node.lx2 + ox2, 2 * node.lx3 + ox3)

\* NeighborBlock::SetNeighbor for the leaf nloc.
SetNeighbor(e, nloc, o, type, bufid, tbid, fi1, fi2) ==
  LET nid == GidOf(e.ll, nloc)
  IN [rank |-> e.rl[nid], level |-> nloc.level, gid |-> nid,
      lid |-> nid - e.sl[e.rl[nid]], ox1 |-> o[1], ox2 |-> o[2], ox3 |-> o[3],
      type |-> type, bufid |-> bufid, targetid |-> tbid, fi1 |-> fi1, fi2 |-> fi2]

\* Mutant: the children on the far side of the neighbor are taken.
FFace_Far(n) == (n + 1) \div 2

\* "fface=1-(n+1)/2": the child index on the side of the neighbor that
\* touches this block (1 for a neighbor on the inner side, 0 on the outer).
FFace(n) == 1 - (n + 1) \div 2

\* Mutant: the parity bits of x2 and x3 are used for every face.
CoarserFaceFi_X1Only(b, axis) == <<b.myfx2, b.myfx3>>

\* The fine indices a block passes to FindBufferID for a coarser face
\* neighbor: its own parity bits in the two axes tangential to the face.
CoarserFaceFi(b, axis) ==
  IF axis = 1 THEN <<b.myfx2, b.myfx3>>
  ELSE IF axis = 2 THEN <<b.myfx1, b.myfx3>>
  ELSE <<b.myfx1, b.myfx2>>

\* Mutant: the counter stays where no neighbor exists.
SkipSlots_Stay(bufid, slots) == bufid

\* "if(neibt==NULL) { bufid+=...; continue;}"
SkipSlots(bufid, slots) == bufid + slots

Neg(o) == [i \in 1..3 |-> -o[i]]

\* One pass of a face loop: [bufid, recs] after direction n of the axis.
FaceVisit(e, b, axis, n, bufid) ==
  LET o     == [i \in 1..3 |-> IF i = axis THEN n ELSE 0]
      neibt == FindNeighbor(e.T, e.c, b.loc, o, b.bcs)
      slots == b.nf1 * b.nf2
  IN IF neibt = NULL THEN [bufid |-> SkipSlots(bufid, slots), recs |-> <<>>]
     ELSE IF ~neibt.flag
     THEN [bufid |-> bufid + slots,
           recs |-> [k \in 1..slots |->
                       LET f1 == (k - 1) % b.nf1
                           f2 == (k - 1) \div b.nf1
                           nf == IF axis = 1 THEN GetLeaf(neibt.loc, FFace(n), f1, f2)
                                 ELSE IF axis = 2 THEN GetLeaf(neibt.loc, f1, FFace(n), f2)
                                 ELSE GetLeaf(neibt.loc, f1, f2, FFace(n))
                       IN SetNeighbor(e, nf, o, "face", bufid + k - 1,
                                      FindBufferID(e.c, Neg(o), 0, 0), f1, f2)]]
     ELSE LET fi   == CoarserFaceFi(b, axis)
              tbid == IF neibt.loc.level = b.loc.level
                      THEN FindBufferID(e.c, Neg(o), 0, 0)
                      ELSE FindBufferID(e.c, Neg(o), fi[1], fi[2])
          IN [bufid |-> bufid + slots,
              recs |-> <<SetNeighbor(e, neibt.loc, o, "face", bufid, tbid, 0, 0)>>]

\* KeepRecord without the test: a record for every edge and corner neighbor.
KeepRecord_Always(nlevel, mylevel, onEdge) == TRUE

\* "if(nlevel>=loc.level || (myox..==n && ...))"
KeepRecord(nlevel, mylevel, onEdge) == nlevel >= mylevel \/ onEdge

\* One pass of an edge loop of plane "x1x2", "x1x3" or "x2x3".
EdgeVisit(e, b, plane, n, m, bufid) ==
  LET o     == IF plane = "x1x2" THEN Off(n, m, 0)
               ELSE IF plane = "x1x3" THEN Off(n, 0, m) ELSE Off(0, n, m)
      slots == IF plane = "x1x2" THEN b.nf2 ELSE b.nf1
      myfx  == IF plane = "x1x2" THEN b.myfx3
               ELSE IF plane = "x1x3" THEN b.myfx2 ELSE b.myfx1
      onEdge == IF plane = "x1x2" THEN b.myox1 = n /\ b.myox2 = m
                ELSE IF plane = "x1x3" THEN b.myox1 = n /\ b.myox3 = m
                ELSE b.myox2 = n /\ b.myox3 = m
      neibt == FindNeighbor(e.T, e.c, b.loc, o, b.bcs)
  IN IF neibt = NULL THEN [bufid |-> SkipSlots(bufid, slots), recs |-> <<>>]
     ELSE IF ~neibt.flag
     THEN [bufid |-> bufid + slots,
           recs |-> [k \in 1..slots |->
                       LET f1 == k - 1
                           nf == IF plane = "x1x2"
                                 THEN GetLeaf(neibt.loc, FFace(n), FFace(m), f1)
                                 ELSE IF plane = "x1x3"
                                 THEN GetLeaf(neibt.loc, FFace(n), f1, FFace(m))
                                 ELSE GetLeaf(neibt.loc, f1, FFace(n), FFace(m))
                       IN SetNeighbor(e, nf, o, "edge", bufid + k - 1,
                                      FindBufferID(e.c, Neg(o), 0, 0), f1, 0)]]
     ELSE LET tbid == IF neibt.loc.level = b.loc.level
                      THEN FindBufferID(e.c, Neg(o), 0, 0)
                      ELSE FindBufferID(e.c, Neg(o), myfx, 0)
          IN [bufid |-> bufid + slots,
              recs |-> IF KeepRecord(neibt.loc.level, b.loc.level, onEdge)
                       THEN <<SetNeighbor(e, neibt.loc, o, "edge", bufid, tbid, 0, 0)>>
                       ELSE <<>>]

\* One pass of the corner loop.
CornerVisit(e, b, n, m, l, bufid) ==
  LET o     == Off(n, m, l)
      neibt == FindNeighbor(e.T, e.c, b.loc, o, b.bcs)
  IN IF neibt = NULL THEN [bufid |-> SkipSlots(bufid, 1), recs |-> <<>>]
     ELSE LET nloc == IF ~neibt.flag
                      THEN GetLeaf(neibt.loc, FFace(n), FFace(m), FFace(l))
                      ELSE neibt.loc
          IN [bufid |-> bufid + 1,
              recs |-> IF KeepRecord(nloc.level, b.loc.level,
                                     b.myox1 = n /\ b.myox2 = m /\ b.myox3 = l)
                       THEN <<SetNeighbor(e, nloc, o, "corner", bufid,
                                          FindBufferID(e.c, Neg(o), 0, 0), 0, 0)>>
                       ELSE <<>>]

\* The passes in the order of the source: x1 faces; return when nx2 = 1; x2
\* faces; x3 faces when nx3 > 1; return when face_only; x1x2 edges; return
\* when nx3 = 1; x1x3 edges; x2x3 edges; corners.
Pair(k) == <<2 * ((k - 1) % 2) - 1, 2 * ((k - 1) \div 2) - 1>>

SearchPasses(c) ==
  LET faces(axis) == [k \in 1..2 |-> [kind |-> "face", axis |-> axis, n |-> 2 * k - 3]]
      edges(pl)   == [k \in 1..4 |-> [kind |-> "edge", plane |-> pl,
                                      n |-> Pair(k)[1], m |-> Pair(k)[2]]]
      corners     == [k \in 1..8 |-> [kind |-> "corner", n |-> 2 * ((k - 1) % 2) - 1,
                                      m |-> 2 * (((k - 1) \div 2) % 2) - 1,
                                      l |-> 2 * ((k - 1) \div 4) - 1]]
  IN faces(1)
     \o (IF c.dim = 1 THEN <<>>
         ELSE faces(2)
           \o (IF c.dim = 3 THEN faces(3) ELSE <<>>)
           \o (IF c.face_only THEN <<>>
               ELSE edges("x1x2")
                 \o (IF c.dim < 3 THEN <<>>
                     ELSE edges("x1x3") \o edges("x2x3") \o corners)))

RECURSIVE RunPasses(_, _, _, _, _, _)
RunPasses(e, b, ps, k, bufid, recs) ==
  IF k > Len(ps) THEN recs
  ELSE LET v == IF ps[k].kind = "face" THEN FaceVisit(e, b, ps[k].axis, ps[k].n, bufid)
                ELSE IF ps[k].kind = "edge"
                THEN EdgeVisit(e, b, ps[k].plane, ps[k].n, ps[k].m, bufid)
                ELSE CornerVisit(e, b, ps[k].n, ps[k].m, ps[k].l, bufid)
       IN RunPasses(e, b, ps, k + 1, v.bufid, recs \o v.recs)

\* The neighbor records of the block at loc, neighbor[0..nneighbor-1] as a
\* sequence.  e holds the tree, the settings and the lists the call reads.
SearchAndSetNeighbors(e, loc) ==
  LET b == [loc |-> loc, bcs |-> SetBlockBoundaries(e.c, loc),
            myfx1 |-> loc.lx1 % 2, myfx2 |-> loc.lx2 % 2, myfx3 |-> loc.lx3 % 2,
            myox1 |-> (loc.lx1 % 2) * 2 - 1,
            myox2 |-> IF e.c.dim >= 2 THEN (loc.lx2 % 2) * 2 - 1 ELSE 0,
            myox3 |-> IF e.c.dim >= 3 THEN (loc.lx3 % 2) * 2 - 1 ELSE 0,
            nf1 |-> IF e.c.multilevel /\ e.c.dim >= 2 THEN 2 ELSE 1,
            nf2 |-> IF e.c.multilevel /\ e.c.dim >= 3 THEN 2 ELSE 1]
  IN RunPasses(e, b, SearchPasses(e.c), 1, 0, <<>>)

\* SearchAndSetNeighbors on every block of the mesh.
SearchAll(T, c, ll, rl, sl) ==
  LET e == [T |-> T, c |-> c, ll |-> ll, rl |-> rl, sl |-> sl]
  IN [g \in DOMAIN ll |-> SearchAndSetNeighbors(e, ll[g])]

----------------------------------------------------------------------------
\* Specification SpecAMR: a mesh built by the fresh-start constructor and
\* then adapted by AdaptiveMeshRefinement calls with arbitrary flags.

AllOutflow == [b \in 0..5 |-> OutflowBC]

\* The meshes of this specification: the root grid, the dimension, the root
\* level (the smallest l with 2^l >= the largest root-grid extent) and
\* max_level = numlevel + root_level - 1 with numlevel = 2.
Meshes ==
  { [dim |-> 1, nrbx1 |-> 3, nrbx2 |-> 1, nrbx3 |-> 1, root_level |-> 2,
     max_level |-> 3, bcs |-> AllOutflow, multilevel |-> TRUE, face_only |-> FALSE],
    [dim |-> 1, nrbx1 |-> 2, nrbx2 |-> 1, nrbx3 |-> 1, root_level |-> 1,
     max_level |-> 2, bcs |-> AllOutflow, multilevel |-> TRUE, face_only |-> FALSE],
    [dim |-> 2, nrbx1 |-> 2, nrbx2 |-> 1, nrbx3 |-> 1, root_level |-> 1,
     max_level |-> 2, bcs |-> AllOutflow, multilevel |-> TRUE, face_only |-> FALSE] }

\* The per-rank lists the constructor builds from nslist and nblist.
BuildAllLists(ll, slist, nlist, R) ==
  [r \in 0..(R - 1) |-> BuildBlockList(ll, slist[r], slist[r] + nlist[r] - 1)]

NoHist == [step1 |-> NULL, roundtrip |-> NULL, listed |-> {}, full |-> {}, peer |-> NULL]

\* Mesh::Mesh (fresh start): root grid, static refinement of the root blocks
\* in S (a refinement region that covers them), leaf list, the check on the
\* number of ranks, unit costs, LoadBalancing, the MeshBlock lists.
InitAMR ==
  \E c \in Meshes, R \in 1..MaxRanks :
  \E S \in SUBSET CreateRootGrid(c) :
  \E T \in {RefineSet(CreateRootGrid(c), c, S)} :
  \E ll \in {GetMeshBlockList(T, c.dim)} :
  \E nb \in {Cardinality(DOMAIN ll)} :
  \E lb \in {LoadBalancing([g \in 0..(nb - 1) |-> RFromInt(1)], [g \in 0..(nb - 1) |-> -1],
                            [r \in 0..(R - 1) |-> 0], [r \in 0..(R - 1) |-> 0], nb, R)} :
       /\ nb >= R
       /\ cfg = c
       /\ nranks = R
       /\ tree = T
       /\ loclist = ll
       /\ nbtotal = nb
       /\ costlist = [g \in 0..(nb - 1) |-> RFromInt(1)]
       /\ ranklist = lb.rlist
       /\ nslist = lb.slist
       /\ nblist = lb.nlist
       /\ mb = BuildAllLists(ll, lb.slist, lb.nlist, R)
       /\ neighbor = SearchAll(T, c, ll, lb.rlist, lb.slist)
       /\ hist = NoHist
       /\ pc = "constructed"
       /\ status = "ok"
       /\ NonMeshIdle

\* The gids the external criterion may flag: +1 below max_level, -1 above
\* root_level (CheckRefinementCondition clears any other flag).
Refinable   == {g \in DOMAIN loclist : loclist[g].level < cfg.max_level}
Derefinable == {g \in DOMAIN loclist : loclist[g].level > cfg.root_level}

\* The parents all of whose 2^dim children are leaves flagged -1.
FullGroups(T, ll, dn, dim) ==
  {p \in {ParentLoc(ll[g]) : g \in dn} :
     \A k \in Children(p, dim) : k \in T /\ GidOf(ll, k) \in dn}

\* The history kept for the round trip: step1 after a call that only refined
\* the one flagged leaf, roundtrip after a call, right after such a step, in
\* which exactly the children of that leaf were flagged -1.  peer: the new
\* loclist another rank derives from the same tree, lists and flags.
HistAfter(T0, ll0, nb0, T1, up, dn, listed, peerloc) ==
  [step1 |-> IF /\ Cardinality(up) = 1 /\ dn = {}
                /\ \E g \in up : T1 = (T0 \ {ll0[g]}) \cup Children(ll0[g], cfg.dim)
             THEN [tree |-> T0, loclist |-> ll0, nbtotal |-> nb0,
                   leaf |-> ll0[CHOOSE g \in up : TRUE]]
             ELSE NULL,
   roundtrip |-> IF /\ hist.step1 # NULL /\ up = {}
                    /\ {ll0[g] : g \in dn} = Children(hist.step1.leaf, cfg.dim)
                    /\ Derefine(T0, cfg, hist.step1.leaf) = hist.step1.tree
                 THEN [tree |-> hist.step1.tree, loclist |-> hist.step1.loclist,
                       nbtotal |-> hist.step1.nbtotal]
                 ELSE NULL,
   listed |-> listed,
   peer |-> peerloc,
   full |-> FullGroups(T0, ll0, dn, cfg.dim)]

\* "create a list mapping the previous gid to the current one": the loop over
\* n with the write index k.  a = [map, set, k]: the array, the entries
\* written so far, the index.
RECURSIVE OldToNewLoop(_, _, _, _, _)
OldToNewLoop(newtoold, ntot, nlbl, n, a) ==
  IF n >= ntot THEN a
  ELSE IF newtoold[n] = newtoold[n - 1] + 1
  THEN CHOOSE res \in
         {OldToNewLoop(newtoold, ntot, nlbl, n + 1, b) :
            b \in {[map |-> [a.map EXCEPT ![a.k] = n],
                    set |-> a.set \cup {a.k}, k |-> a.k + 1]}} : TRUE
  ELSE IF newtoold[n] = newtoold[n - 1] + nlbl
  THEN CHOOSE res \in
         {OldToNewLoop(newtoold, ntot, nlbl, n + 1, b) :
            b \in {[map |-> [o \in DOMAIN a.map |->
                               IF o \in a.k..(a.k + nlbl - 2) THEN n ELSE a.map[o]],
                    set |-> a.set \cup (a.k..(a.k + nlbl - 2)),
                    k |-> a.k + nlbl - 1]}} : TRUE
  ELSE OldToNewLoop(newtoold, ntot, nlbl, n + 1, a)

\* oldtonew = new int[nbtotal]; oldtonew[0]=0; the loop.  An entry the loop
\* does not write keeps what the allocation held (junk).
OldToNew(newtoold, ntot, nbold, nlbl, junk) ==
  OldToNewLoop(newtoold, ntot, nlbl, 1,
               [map |-> [o \in 0..(nbold - 1) |-> IF o = 0 THEN 0 ELSE junk],
                set |-> {0}, k |-> 1])

\* Ghost cells per side and variables per cell of the build (a hydrodynamic
\* build: MAGNETIC_FIELDS_ENABLED is 0).
NGHOST == 2
NHYDRO == 5

\* CreateAMRMPITag packs lid, ox1, ox2 and ox3 into one integer.
CreateAMRMPITag(lid, ox1, ox2, ox3) == lid * 8 + ox1 * 4 + ox2 * 2 + ox3

\* Step 4: bssame, bsf2c and bsc2f from the cells of a block.
BufferSize(kind, bnx, f2, f3) ==
  IF kind = "same" THEN bnx[1] * bnx[2] * bnx[3] * NHYDRO
  ELSE IF kind = "f2c"
  THEN (bnx[1] \div 2) * ((bnx[2] + 1) \div 2) * ((bnx[3] + 1) \div 2) * NHYDRO
  ELSE (bnx[1] \div 2 + 2) * ((bnx[2] + 1) \div 2 + 2 * f2)
         * ((bnx[3] + 1) \div 2 + 2 * f3) * NHYDRO

\* Step 5 for the new block n of rank r: the receives posted.  x holds the
\* locals of the call.
RecvsFor(r, n, x) ==
  IF n \notin DOMAIN x.newloc THEN {}
  ELSE LET on  == x.newtoold[n]
           nbs == x.nslist[r]
       IN IF x.loclist[on].level > x.newloc[n].level
          THEN {[src |-> x.ranklist[on + l], dst |-> r,
                 tag |-> CreateAMRMPITag(n - nbs, x.loclist[on + l].lx1 % 2,
                                         x.loclist[on + l].lx2 % 2,
                                         x.loclist[on + l].lx3 % 2),
                 len |-> BufferSize("f2c", x.bnx, x.f2, x.f3), blk |-> n, leg |-> l] :
                  l \in {l \in 0..(x.nlbl - 1) : x.ranklist[on + l] # r}}
          ELSE IF x.ranklist[on] = r THEN {}
          ELSE {[src |-> x.ranklist[on], dst |-> r,
                 tag |-> CreateAMRMPITag(n - nbs, 0, 0, 0),
                 len |-> BufferSize(IF x.loclist[on].level = x.newloc[n].level
                                    THEN "same" ELSE "c2f", x.bnx, x.f2, x.f3),
                 blk |-> n, leg |-> 0]}

\* Step 6 for the old block n of rank r: the sends started.
SendsFor(r, n, x) ==
  IF n \notin DOMAIN x.loclist THEN {}
  ELSE
  LET nn == x.oldtonew[n]
  IN IF nn \notin DOMAIN x.newloc THEN {}
     ELSE IF x.newloc[nn].level = x.loclist[n].level
     THEN IF x.newrank[nn] = r THEN {}
          ELSE {[src |-> r, dst |-> x.newrank[nn],
                 tag |-> CreateAMRMPITag(nn - x.nslist[x.newrank[nn]], 0, 0, 0),
                 len |-> BufferSize("same", x.bnx, x.f2, x.f3), blk |-> n, leg |-> 0]}
     ELSE IF x.newloc[nn].level > x.loclist[n].level
     THEN {[src |-> r, dst |-> x.newrank[nn + l],
            tag |-> CreateAMRMPITag(nn + l - x.nslist[x.newrank[nn + l]], 0, 0, 0),
            len |-> BufferSize("c2f", x.bnx, x.f2, x.f3), blk |-> n, leg |-> l] :
             l \in {l \in 0..(x.nlbl - 1) :
                      nn + l \in DOMAIN x.newloc /\ x.newrank[nn + l] # r}}
     ELSE IF x.newrank[nn] = r THEN {}
          ELSE {[src |-> r, dst |-> x.newrank[nn],
                 tag |-> CreateAMRMPITag(nn - x.nslist[x.newrank[nn]],
                                         x.loclist[n].lx1 % 2, x.loclist[n].lx2 % 2,
                                         x.loclist[n].lx3 % 2),
                 len |-> BufferSize("f2c", x.bnx, x.f2, x.f3), blk |-> n, leg |-> 0]}

\* Steps 5 and 6 read newloc, newrank and newtoold at an index beyond their
\* end: a new gid at or above ntot, or an oldtonew entry that is no new gid.
WildIndex(r, x) ==
  \/ \E n \in x.nslist[r]..(x.nslist[r] + x.nblist[r] - 1) : n \notin DOMAIN x.newloc
  \/ \E n \in x.onslist[r]..(x.onslist[r] + x.onblist[r] - 1) :
       \/ n \notin DOMAIN x.loclist
       \/ x.oldtonew[n] \notin DOMAIN x.newloc
       \/ /\ x.newloc[x.oldtonew[n]].level > x.loclist[n].level
          /\ x.oldtonew[n] + x.nlbl - 1 \notin DOMAIN x.newloc

\* No block exchange has taken place in the last call.
NoXfer == [done |-> FALSE]

\* The record of a call that returned or failed before the block exchange:
\* the flag totals and the indices the sibling scan read.
Gathered(tnref, tnderef, scanned) ==
  [done |-> FALSE, tnref |-> tnref, tnderef |-> tnderef, scanned |-> scanned,
   reinit |-> FALSE]

\* The record of the block exchange of one call: the derefinement parents as
\* gathered and in the order Derefine was called on them, the maps, the messages of
\* all ranks, and for each rank the outcome of Step 7 (rebuilt: whether an
\* invalid pointer was used, the new list, where its blocks came from).
BlockExchange(x, o2n, rb, R) ==
  [done |-> TRUE, nlbl |-> x.nlbl, gathered |-> x.gathered, clderef |-> x.clderef,
   oldloc |-> x.loclist, oldrank |-> x.ranklist, oldmb |-> mb,
   oldcost |-> x.costlist, onslist |-> x.onslist, onblist |-> x.onblist,
   tnref |-> x.tnref, tnderef |-> x.tnderef, scanned |-> x.scanned,
   reinit |-> \A r \in 0..(R - 1) : ~rb[r].bad,
   newloc |-> x.newloc, newtoold |-> x.newtoold, newrank |-> x.newrank,
   nslist |-> x.nslist, nblist |-> x.nblist,
   oldtonew |-> x.oldtonew, written |-> o2n.set,
   recvs |-> UNION {UNION {RecvsFor(r, n, x) :
                             n \in x.nslist[r]..(x.nslist[r] + x.nblist[r] - 1)} :
                      r \in 0..(R - 1)},
   sends |-> UNION {UNION {SendsFor(r, n, x) :
                             n \in x.onslist[r]..(x.onslist[r] + x.onblist[r] - 1)} :
                      r \in 0..(R - 1)},
   wild |-> \E r \in 0..(R - 1) : WildIndex(r, x),
   rebuilt |-> rb]

\* Mutant of NothingFlagged: the call never returns early.
NothingFlagged_Never(tnref, tnderef) == FALSE

\* "if(tnref==0 && tnderef==0) { delete [] nref; delete [] nderef; return; }"
NothingFlagged(tnref, tnderef) == tnref = 0 /\ tnderef = 0

\* One AdaptiveMeshRefinement call with flags +1 on up and -1 on dn.  Each
\* local of the source is bound once, in the order the source computes it.
\* With traced the record of the block exchange is kept in xfer.
AdaptiveMeshRefinement(up, dn, traced) ==
  \E flag \in {[g \in DOMAIN loclist |->
                    IF g \in up THEN 1 ELSE IF g \in dn THEN -1 ELSE 0]} :
  \E nlbl \in {Pow2(cfg.dim)} :
  \E lref \in {GatherLocs(mb, nranks, flag, 1)} :
  \E lderef \in {ZeroBased(GatherLocs(mb, nranks, flag, -1))} :
  \E tnref \in {Len(lref)} :
  \E tnderef \in {Cardinality(DOMAIN lderef)} :
  \E cands \in {{IF tnderef > nlbl
                    THEN DerefCandidates(lderef, tnderef, nlbl, 0, oob, <<>>)
                    ELSE <<>> : oob \in BOOLEAN}} :
  \E cl0 \in cands :
  \E clderef \in {SortCandidates(cl0)} :
  \E T1 \in {DerefineAll(RefineAll(tree, cfg, lref, 1), cfg, clderef, 1)} :
  \E newloc \in {GetMeshBlockList(T1, cfg.dim)} :
  \E ntot \in {Cardinality(DOMAIN newloc)} :
  \E newtoold \in {NewToOld(tree, loclist, newloc, cfg.dim)} :
  \E newcost \in {NewCost(costlist, loclist, newloc, newtoold, nlbl)} :
  \E lb \in {LoadBalancing(newcost, [g \in 0..(ntot - 1) |-> -1],
                               nslist, nblist, ntot, nranks)} :
  \E w \in {[ntot |-> ntot, newtoold |-> newtoold, newloc |-> newloc,
                  ranklist |-> ranklist, loclist |-> loclist, nlbl |-> nlbl,
                  nslist |-> lb.slist, nblist |-> lb.nlist]} :
  \E rb \in {[r \in 0..(nranks - 1) |-> RebuildRank(mb[r], r, w, oob)] : oob \in BOOLEAN} :
  \E stale \in {\E r \in 0..(nranks - 1) : CountRank(lb.rlist, r) = 0} :
  \E o2n \in {OldToNew(newtoold, ntot, nbtotal, nlbl, junk) :
                junk \in IF traced THEN Garbage ELSE {0}} :
  \E x \in {[ntot |-> ntot, newtoold |-> newtoold, newloc |-> newloc,
             ranklist |-> ranklist, loclist |-> loclist, nlbl |-> nlbl,
             nslist |-> lb.slist, nblist |-> lb.nlist, newrank |-> lb.rlist,
             onslist |-> nslist, onblist |-> nblist, oldtonew |-> o2n.map,
             gathered |-> cl0, clderef |-> clderef, costlist |-> costlist,
             tnref |-> tnref, tnderef |-> tnderef,
             scanned |-> IF traced THEN ScanReads(lderef, tnderef, nlbl) ELSE {},
             bnx |-> IF traced THEN cfg.bnx ELSE <<0, 0, 0>>,
             f2 |-> IF cfg.dim >= 2 THEN 1 ELSE 0,
             f3 |-> IF cfg.dim >= 3 THEN 1 ELSE 0]} :
  /\ xfer' = IF ~traced THEN xfer
             ELSE IF \/ NothingFlagged(tnref, tnderef)
                     \/ Len(cl0) > tnderef \div nlbl
                     \/ lb.thrown
             THEN Gathered(tnref, tnderef, ScanReads(lderef, tnderef, nlbl))
             ELSE BlockExchange(x, o2n, rb, nranks)
  /\ IF NothingFlagged(tnref, tnderef)
     THEN /\ hist' = NoHist
          /\ UNCHANGED <<status, nbtotal, costlist, ranklist, nslist, nblist,
                         tree, loclist, mb, neighbor>>
     ELSE IF Len(cl0) > tnderef \div nlbl
     THEN \* clderef[ctnd] written beyond the tnderef/nlbl entries allocated
          /\ status' = "ub"
          /\ hist' = NoHist
          /\ UNCHANGED <<nbtotal, costlist, ranklist, nslist, nblist,
                         tree, loclist, mb, neighbor>>
     ELSE IF lb.thrown
     THEN \* the exception leaves the call after the tree and nbtotal changed
          /\ status' = "fatal"
          /\ tree' = T1
          /\ nbtotal' = ntot
          /\ hist' = NoHist
          /\ UNCHANGED <<costlist, ranklist, nslist, nblist, loclist, mb, neighbor>>
     ELSE /\ tree' = T1
          /\ nbtotal' = ntot
          /\ nslist' = lb.slist
          /\ nblist' = lb.nlist
          /\ \E clp \in {c \in cands : Len(c) <= tnderef \div nlbl} :
               hist' = HistAfter(tree, loclist, nbtotal, T1, up, dn,
                                 {clderef[k] : k \in 1..Len(clderef)},
                                 IF clp = cl0 THEN newloc
                                 ELSE GetMeshBlockList(
                                        DerefineAll(RefineAll(tree, cfg, lref, 1), cfg,
                                                    SortCandidates(clp), 1), cfg.dim))
          /\ IF \E r \in 0..(nranks - 1) : rb[r].bad
             THEN /\ status' = "ub"
                  /\ UNCHANGED <<costlist, ranklist, loclist, mb, neighbor>>
             ELSE /\ status' = IF stale THEN "stale" ELSE "ok"
                  /\ mb' = [r \in 0..(nranks - 1) |-> rb[r].h]
                  /\ loclist' = newloc
                  /\ ranklist' = lb.rlist
                  /\ costlist' = newcost
                  /\ neighbor' = SearchAll(T1, cfg, newloc, lb.rlist, lb.slist)

CallAMR ==
  /\ pc \in {"constructed", "amr"}
  /\ status = "ok"
  /\ \E up \in SUBSET Refinable, dn \in SUBSET Derefinable :
       /\ up \cap dn = {}
       /\ AdaptiveMeshRefinement(up, dn, FALSE)
  /\ pc' = "amr"
  /\ UNCHANGED <<nranks, cfg>>
  /\ UNCHANGED nonmeshvars

NextAMR == CallAMR

SpecAMR == InitAMR /\ [][NextAMR]_vars

\* The call (the constructor or an AMR call) has returned.
MeshReturned == pc \in {"constructed", "amr"} /\ status \in {"ok", "stale"}
AMRReturned  == pc = "amr" /\ status \in {"ok", "stale"}

\* The list of rank r holds the blocks nslist[r] .. nslist[r]+nblist[r]-1 in
\* ascending order, with the lid and the location the tables give.
ListMatchesTables(r) ==
  LET os == ListObjs(mb[r])
  IN /\ Len(os) = nblist[r]
     /\ \A k \in 1..Len(os) :
          /\ os[k].gid = nslist[r] + k - 1
          /\ os[k].lid = os[k].gid - nslist[r]
          /\ os[k].gid \in DOMAIN loclist
          /\ os[k].loc = loclist[os[k].gid]

\* C3 (as claimed): after the constructor and after every AMR call that
\* returns, the list of every rank, walked from pblock by next, has exactly
\* nblist[rank] blocks with gids nslist[rank], nslist[rank]+1, ... in
\* ascending order, lid = gid - nslist[rank] and loc = loclist[gid].
\* Violated: a call that leaves fewer blocks than ranks returns with the last
\* rank's nslist/nblist entries untouched, and that rank builds its list from
\* indices beyond the new tables.
C3_ListsMatchTables == MeshReturned => \A r \in Ranks : ListMatchesTables(r)

\* A well-formed doubly linked list: the head has no prev, the tail no next,
\* b.next.prev = b, and no pointer holds the address of a destroyed block.
WellFormedList(h) ==
  LET ch == Chain(h.obj, h.pblock)
  IN /\ h.pblock # 0 => h.obj[h.pblock].prev = 0
     /\ \A k \in 1..Len(ch) :
          /\ h.obj[ch[k]].prev # DEAD
          /\ h.obj[ch[k]].next # 0 => h.obj[h.obj[ch[k]].next].prev = ch[k]

\* C4 (as claimed): after every AMR call the list of every rank is a
\* well-formed doubly linked list.  Violated: when the first block of the new
\* list is an old block that was not the head of the old list, its prev keeps
\* the address of its old predecessor, which is then destroyed.
C4_WellFormedLists == AMRReturned => \A r \in Ranks : WellFormedList(mb[r])

\* C5 (as claimed): a step that refines one leaf, followed at once by a step
\* that flags exactly its 2^dim children -1, gives back the tree, nbtotal and
\* loclist of before the first step.  Violated: with 2^dim flags in total the
\* test "tnderef > nlbl" is false and nothing is derefined.
C5_RefineDerefineRoundTrip ==
  (AMRReturned /\ hist.roundtrip # NULL) =>
    /\ tree = hist.roundtrip.tree
    /\ nbtotal = hist.roundtrip.nbtotal
    /\ loclist = hist.roundtrip.loclist

\* C18 as stated: Phases A-C are a function of the tree, the lists and the
\* gathered flags: a second rank that starts from the same state and flags
\* derives the same loclist.
C18_PeersAgree == (AMRReturned /\ hist.peer # NULL) => hist.peer = loclist

\* C6 (as claimed): a parent is put on the derefinement list (and Derefine is
\* called on it) only if all of its 2^dim children are leaves of one level
\* flagged -1.  Violated: the sibling scan of the last flagged block reads
\* lderef beyond its end, and what it reads can pass for the siblings.
C6_ListedOnlyIfAllFlagged == pc = "amr" => hist.listed \subseteq hist.full

----------------------------------------------------------------------------
\* Specification SpecNB: the neighbor search on the meshes the constructor
\* builds: a root grid refined by up to MaxRefine static refinement steps,
\* with at most MaxLeaves blocks.

MaxRefine == 2
MaxLeaves == 16

\* The rank counts of this specification.
NBRanks == {1, 2}

AllPeriodic == [b \in 0..5 |-> PeriodicBC]

Mesh1(d, n1, n2, n3, rl, ml, b, fo) ==
  [dim |-> d, nrbx1 |-> n1, nrbx2 |-> n2, nrbx3 |-> n3, root_level |-> rl,
   max_level |-> IF ml THEN rl + MaxRefine ELSE rl, bcs |-> b,
   multilevel |-> ml, face_only |-> fo]

NBMeshes ==
  { Mesh1(1, 3, 1, 1, 2, TRUE, AllPeriodic, FALSE),
    Mesh1(1, 3, 1, 1, 2, TRUE, AllOutflow, FALSE),
    Mesh1(2, 2, 2, 1, 1, TRUE, AllPeriodic, FALSE),
    Mesh1(2, 2, 2, 1, 1, TRUE, AllOutflow, FALSE),
    Mesh1(2, 2, 2, 1, 1, TRUE, AllOutflow, TRUE),
    Mesh1(2, 2, 2, 1, 1, FALSE, AllPeriodic, FALSE),
    Mesh1(3, 2, 1, 1, 1, TRUE, AllPeriodic, FALSE),
    Mesh1(3, 2, 1, 1, 1, TRUE, AllOutflow, FALSE) }

\* The trees of at most MaxLeaves leaves k refinement steps can give.
RECURSIVE RefinedTrees(_, _)
RefinedTrees(c, k) ==
  IF k = 0 THEN {CreateRootGrid(c)}
  ELSE LET S == RefinedTrees(c, k - 1)
       IN S \cup {U \in UNION {{Refine(T, c, l) : l \in {x \in T : x.level < c.max_level}} :
                                  T \in S} : Cardinality(U) <= MaxLeaves}

\* Mesh::Mesh up to LoadBalancing: the tree, the leaf list, the balance.
InitNB ==
  \E c \in NBMeshes, R \in NBRanks :
  \E T \in RefinedTrees(c, MaxRefine) :
    LET ll == GetMeshBlockList(T, c.dim)
        nb == Cardinality(DOMAIN ll)
        lb == LoadBalancing([g \in 0..(nb - 1) |-> RFromInt(1)], [g \in 0..(nb - 1) |-> -1],
                            [r \in 0..(R - 1) |-> 0], [r \in 0..(R - 1) |-> 0], nb, R)
    IN /\ nb >= R
       /\ cfg = c
       /\ nranks = R
       /\ tree = T
       /\ loclist = ll
       /\ nbtotal = nb
       /\ costlist = [g \in 0..(nb - 1) |-> RFromInt(1)]
       /\ ranklist = lb.rlist
       /\ nslist = lb.slist
       /\ nblist = lb.nlist
       /\ mb = NoValue
       /\ neighbor = NoValue
       /\ hist = NoValue
       /\ pc = "balanced"
       /\ status = "ok"
       /\ NonMeshIdle

\* Mesh::Mesh, the list loop: every block is created and searches its
\* neighbors.
CallSearchAndSetNeighbors ==
  /\ pc = "balanced"
  /\ mb' = BuildAllLists(loclist, nslist, nblist, nranks)
  /\ neighbor' = SearchAll(tree, cfg, loclist, ranklist, nslist)
  /\ pc' = "constructed"
  /\ UNCHANGED <<status, nranks, nbtotal, costlist, ranklist, nslist, nblist,
                 tree, cfg, loclist, hist>>
  /\ UNCHANGED nonmeshvars

NextNB == CallSearchAndSetNeighbors

SpecNB == InitNB /\ [][NextNB]_vars

Searched == pc = "constructed" /\ status = "ok"

RecOff(r) == Off(r.ox1, r.ox2, r.ox3)

\* Block g holds a record for block h in direction o that is the mirror of r.
Mirrored(g, r) ==
  \E k \in 1..Len(neighbor[r.gid]) :
    LET q == neighbor[r.gid][k]
    IN /\ q.gid = g
       /\ RecOff(q) = Neg(RecOff(r))
       /\ q.targetid = r.bufid
       /\ r.targetid = q.bufid

\* C7: after SearchAndSetNeighbors has run on all blocks of a 2:1-balanced
\* tree, every record A holds for B in direction o is matched by a record B
\* holds for A in direction -o, the bufid of each being the targetid of the
\* other; for same-level, coarser and finer neighbors, faces, edges, corners.
C7_NeighborSymmetry ==
  Searched =>
    \A g \in DOMAIN neighbor : \A k \in 1..Len(neighbor[g]) : Mirrored(g, neighbor[g][k])

\* Witness of C7: a 3-D mesh where one block holds an edge record and a
\* corner record for a coarser block and a face record for a same-level
\* block, and another block holds a corner record for a finer block.
C7_Witness ==
  /\ Searched
  /\ cfg.dim = 3
  /\ \E g \in DOMAIN neighbor :
       LET rs == {neighbor[g][k] : k \in 1..Len(neighbor[g])}
       IN /\ \E r \in rs : r.type = "edge" /\ r.level < loclist[g].level
          /\ \E r \in rs : r.type = "corner" /\ r.level < loclist[g].level
          /\ \E r \in rs : r.type = "face" /\ r.level = loclist[g].level
  /\ \E g \in DOMAIN neighbor : \E k \in 1..Len(neighbor[g]) :
       neighbor[g][k].type = "corner" /\ neighbor[g][k].level > loclist[g].level

\* The records block g holds in direction o.
RecsAt(g, o) ==
  SelectSeq(neighbor[g], LAMBDA r : RecOff(r) = o)

FaceOffs == {o \in Dirs(cfg.dim) : Cardinality({i \in 1..3 : o[i] # 0}) = 1}

\* The parity bits of loc in the two axes tangential to the face o.
Tangential(loc, o) ==
  IF o[1] # 0 THEN <<loc.lx2 % 2, loc.lx3 % 2>>
  ELSE IF o[2] # 0 THEN <<loc.lx1 % 2, loc.lx3 % 2>>
  ELSE <<loc.lx1 % 2, loc.lx2 % 2>>

\* The leaf nl lies across the face o of the block at loc: the node next to
\* nl in direction -o is loc or lies inside it.
Abuts(nl, loc, o) ==
  LET back == NeighborLoc(cfg, nl, Neg(o), cfg.bcs)
  IN back # NULL /\ AncestorAt(back, loc.level) = loc

FaceRule(g, o) ==
  LET loc == loclist[g]
      nbn == FindNeighbor(tree, cfg, loc, o, cfg.bcs)
      rs  == RecsAt(g, o)
  IN IF nbn = NULL THEN Len(rs) = 0
     ELSE IF ~nbn.flag
     THEN /\ Len(rs) = Pow2(cfg.dim - 1)
          /\ \A i, j \in 1..Len(rs) : i # j => <<rs[i].fi1, rs[i].fi2>> # <<rs[j].fi1, rs[j].fi2>>
          /\ \A i \in 1..Len(rs) :
               /\ rs[i].level = loc.level + 1
               /\ rs[i].type = "face"
               /\ loclist[rs[i].gid].level = loc.level + 1
               /\ Abuts(loclist[rs[i].gid], loc, o)
     ELSE /\ Len(rs) = 1
          /\ rs[1].type = "face"
          /\ loclist[rs[1].gid] = nbn.loc
          /\ rs[1].level = nbn.loc.level
          /\ nbn.loc.level < loc.level =>
               rs[1].targetid = FindBufferID(cfg, Neg(o), Tangential(loc, o)[1],
                                             Tangential(loc, o)[2])

\* C8: for each face direction of a leaf L the search emits one record per
\* abutting child leaf when the adjacent node is refined (1 in 1-D, 2 in 2-D,
\* 4 in 3-D), each with a distinct (fi1, fi2) and level L.level+1; exactly
\* one record for a same-level leaf; exactly one for a coarser leaf, its
\* targetid computed from L's own parity bits in the two axes tangential to
\* the face; and no record when there is no neighbor.
C8_FaceRecords ==
  Searched => \A g \in DOMAIN neighbor : \A o \in FaceOffs : FaceRule(g, o)

\* Witness of C8: a 3-D block with four finer records across one face, a
\* block with a coarser face neighbor and a block with a face on the boundary.
C8_Witness ==
  /\ Searched
  /\ cfg.dim = 3
  /\ \E g \in DOMAIN neighbor : \E o \in FaceOffs :
       Len(RecsAt(g, o)) = 4 /\ RecsAt(g, o)[1].level = loclist[g].level + 1
  /\ \E g \in DOMAIN neighbor : \E o \in FaceOffs :
       Len(RecsAt(g, o)) = 1 /\ RecsAt(g, o)[1].level < loclist[g].level
  /\ \E g \in DOMAIN neighbor : \E o \in FaceOffs : Len(RecsAt(g, o)) = 0

\* C9: the bufid of a record is the catalogue's id of its direction and fine
\* indices under the mesh-wide (dim, multilevel, face_only), whatever the
\* other directions hold; within one block the bufids are pairwise distinct,
\* strictly increasing in enumeration order and smaller than the number of
\* slots.
C9_BufidByPosition ==
  Searched =>
    \A g \in DOMAIN neighbor :
      /\ \A k \in 1..Len(neighbor[g]) :
           LET r == neighbor[g][k]
           IN /\ r.bufid = FindBufferID(cfg, RecOff(r), r.fi1, r.fi2)
              /\ r.bufid >= 0 /\ r.bufid < BufferID(cfg)
      /\ \A i, j \in 1..Len(neighbor[g]) :
           i < j => neighbor[g][i].bufid < neighbor[g][j].bufid

\* Witness of C9: a block on a mesh boundary (directions without neighbor)
\* that also holds finer and coarser records and skips an edge by the
\* deduplication rule.
C9_Witness ==
  /\ Searched
  /\ cfg.dim = 3 /\ cfg.bcs = AllOutflow
  /\ \E g \in DOMAIN neighbor :
       LET rs == {neighbor[g][k] : k \in 1..Len(neighbor[g])}
       IN /\ \E r \in rs : r.level > loclist[g].level
          /\ \E r \in rs : r.level < loclist[g].level
          /\ \E o \in Dirs(3) : FindNeighbor(tree, cfg, loclist[g], o, cfg.bcs) = NULL
          /\ \E o \in Dirs(3) :
               /\ FindNeighbor(tree, cfg, loclist[g], o, cfg.bcs) # NULL
               /\ \A r \in rs : RecOff(r) # o

----------------------------------------------------------------------------
\* The time step.  Mesh::Mesh sets time = start_time and dt = FLT_MAX*0.4;
\* NewTimeStep takes the smallest new_block_dt of all blocks of all ranks,
\* limits the growth of dt and clamps it to the end of the run.

MaxLocal == 2     \* a rank holds 0..MaxLocal blocks
TSRanks  == 1..2

FltMax == <<Pow2(MantissaBits) - 1, 128 - MantissaBits>>
DtInit == RMul(FltMax, RRatio(2, 5))

StartTimes == {RZero, RRatio(7, 10)}
TLims      == {RFromInt(1), RRatio(19, 10)}
Cfls       == {RRatio(3, 10), RFromInt(1)}
DtValues   == {RRatio(1, 2), RFromInt(4)}

RLt(x, y) == RGt(y, x)

\* The lists of at most n elements of S.
RECURSIVE ListsUpTo(_, _)
ListsUpTo(S, n) ==
  IF n = 0 THEN {<<>>}
  ELSE ListsUpTo(S, n - 1) \cup
       {Append(l, x) : l \in {k \in ListsUpTo(S, n - 1) : Len(k) = n - 1}, x \in S}

\* The loop over the list of a rank: min_dt starts from the first block.
RECURSIVE LocalMin(_, _, _)
LocalMin(l, i, min_dt) ==
  IF i > Len(l) THEN min_dt ELSE LocalMin(l, i + 1, RMin(min_dt, l[i]))

\* MPI_Allreduce(MPI_MIN) over the local minima.
RECURSIVE AllreduceMin(_, _)
AllreduceMin(f, r) ==
  IF r = 0 THEN LocalMin(f[0], 2, f[0][1])
  ELSE RMin(AllreduceMin(f, r - 1), LocalMin(f[r], 2, f[r][1]))

\* Mutant: the new step is not limited to twice the previous one.
LimitedDt_NoGrowthLimit(min_dt, cfl, dtp) == RMul(min_dt, cfl)

\* dt=std::min(min_dt*cfl_number,2.0*dt);
LimitedDt(min_dt, cfl, dtp) == RMin(RMul(min_dt, cfl), RMul(RFromInt(2), dtp))

\* if (time < tlim && tlim-time < dt) dt = tlim-time;
ClampedDt(t, tl, d) ==
  IF RLt(t, tl) /\ RLt(RSub(tl, t), d) THEN RSub(tl, t) ELSE d

InitTS ==
  /\ pc = "constructed"
  /\ status = "ok"
  /\ nranks \in TSRanks
  /\ time \in StartTimes
  /\ tlim \in TLims
  /\ cfl_number \in Cfls
  /\ dt = DtInit
  /\ new_block_dt \in [0..(nranks - 1) -> ListsUpTo(DtValues, MaxLocal)]
  /\ tshist = [dt_prev |-> NoValue, min_dt |-> NoValue]
  /\ MeshIdle
  /\ onb = NoValue
  /\ StepIdle
  /\ ctor = NoValue
  /\ IoIdle

\* NewBlockTimeStep has left a new_block_dt in every block; NewTimeStep.  A
\* rank without blocks reads new_block_dt through the null pblock.
CallNewTimeStep ==
  /\ pc \in {"constructed", "advanced"}
  /\ status = "ok"
  /\ \E nbd \in [0..(nranks - 1) -> ListsUpTo(DtValues, MaxLocal)] :
       /\ \A r \in 0..(nranks - 1) : Len(nbd[r]) = Len(new_block_dt[r])
       /\ new_block_dt' = nbd
       /\ IF \E r \in 0..(nranks - 1) : Len(nbd[r]) = 0
          THEN /\ status' = "ub"
               /\ UNCHANGED <<dt, tshist>>
          ELSE \E min_dt \in {AllreduceMin(nbd, nranks - 1)} :
                 /\ dt' = ClampedDt(time, tlim, LimitedDt(min_dt, cfl_number, dt))
                 /\ tshist' = [dt_prev |-> dt, min_dt |-> min_dt]
                 /\ status' = "ok"
  /\ pc' = "stepped"
  /\ UNCHANGED <<nranks, time, tlim, cfl_number, meshvars, onb, stepvars, ctor, iovars>>

\* The driver: while time < tlim, one step and time += dt.
Advance ==
  /\ pc = "stepped"
  /\ status = "ok"
  /\ RLt(time, tlim)
  /\ time' = RAdd(time, dt)
  /\ pc' = "advanced"
  /\ UNCHANGED <<status, nranks, dt, tlim, cfl_number, new_block_dt, tshist, meshvars, onb,
                 stepvars, ctor, iovars>>

NextTS == CallNewTimeStep \/ Advance

SpecTS == InitTS /\ [][NextTS]_vars

Stepped == pc = "stepped" /\ status = "ok"

\* C12 as stated: NewTimeStep sets dt to the smaller of cfl_number * m and
\* twice the dt before the call, m the smallest new_block_dt of all blocks.
C12_DtIsLimitedMinimum ==
  Stepped => dt = RMin(RMul(tshist.min_dt, cfl_number), RMul(RFromInt(2), tshist.dt_prev))

\* C12, amended: after NewTimeStep dt is tlim - time when time < tlim and
\* tlim - time is below the smaller of cfl_number * m and twice the previous
\* dt, and that smaller value otherwise; so dt never more than doubles and
\* never exceeds cfl_number * m.
C12_DtIsClampedLimitedMinimum ==
  Stepped =>
    LET lim == RMin(RMul(tshist.min_dt, cfl_number), RMul(RFromInt(2), tshist.dt_prev))
    IN /\ dt = IF RLt(time, tlim) /\ RLt(RSub(tlim, time), lim)
               THEN RSub(tlim, time) ELSE lim
       /\ RGe(RMul(RFromInt(2), tshist.dt_prev), dt)
       /\ RGe(RMul(tshist.min_dt, cfl_number), dt)
       /\ \A r \in 0..(nranks - 1) : \A i \in 1..Len(new_block_dt[r]) :
            RGe(new_block_dt[r][i], tshist.min_dt)

\* A call in which twice the previous dt was the smaller value and no clamp
\* applied.
C12_Witness ==
  /\ Stepped
  /\ RLt(RMul(RFromInt(2), tshist.dt_prev), RMul(tshist.min_dt, cfl_number))
  /\ dt = RMul(RFromInt(2), tshist.dt_prev)

\* C13 as stated: after NewTimeStep time + dt <= tlim whenever time < tlim,
\* and a run that starts with time <= tlim never moves time past tlim.
C13_NeverPastTlim ==
  /\ (Stepped /\ RLt(time, tlim)) => RGe(tlim, RAdd(time, dt))
  /\ pc \in {"constructed", "stepped", "advanced"} => RGe(tlim, time)

----------------------------------------------------------------------------
\* Mesh::Initialize(0) with adaptive == true: the warm-up loop.  A pass sets
\* up the blocks, exchanges the ghost zones, lets the criterion flag the
\* blocks and runs one AMR step; the loop ends when nbtotal is what it was
\* before the step.

\* The constructor has returned; no pass has run.
InitWU == InitAMR

\* iflag after the pass: if(nbtotal==onb) iflag=true;
PassIsLast(nb_before, nb_after) == nb_after = nb_before

InitializePass ==
  /\ pc \in {"constructed", "warmup"}
  /\ status = "ok"
  /\ onb' = [nbtotal |-> nbtotal, tree |-> tree]
  /\ \E up \in SUBSET Refinable, dn \in SUBSET Derefinable :
       /\ up \cap dn = {}
       /\ AdaptiveMeshRefinement(up, dn, FALSE)
  /\ pc' = IF PassIsLast(nbtotal, nbtotal') THEN "initialized" ELSE "warmup"
  /\ UNCHANGED <<nranks, cfg, timevars, stepvars, ctor, iovars>>

NextWU == InitializePass

SpecWU == InitWU /\ [][NextWU]_vars

----------------------------------------------------------------------------
\* The exchanges of one rank: UpdateOneStep, the ghost exchange of
\* Initialize and Steps 5-6 of AdaptiveMeshRefinement.  Each is a sequence of
\* loops over the rank's list; a step of the model is one iteration of a
\* loop or the end of a loop.  The task list (DoOneTask) and the boundary
\* functions are outside src/: a call of DoOneTask on a block either runs one
\* task of the block (the last one reports TL_COMPLETE) or finds none that
\* can run and returns; a block with no task left reports nothing more.

MaxList == 3   \* a rank's list holds 0..MaxList blocks
NTasks  == 2   \* ptlist->ntasks

Procs == {"UpdateOneStep", "Initialize", "AMR"}

FirstPhase(p) ==
  IF p = "UpdateOneStep" THEN "us_init"
  ELSE IF p = "Initialize" THEN "in_recv" ELSE "amr_recv"

\* A block before the procedure starts.  remote: the block's data crosses to
\* another rank (AMR); since: the blocks DoOneTask was called on after the
\* last call on this block; lastgap: since, as it was at that last call, for a
\* block called twice or more (gapped).
FreshBlock(rem) ==
  [todo |-> 0, reported |-> 0, recv |-> FALSE, sent |-> FALSE, cleared |-> FALSE,
   remote |-> rem, called |-> FALSE, since |-> <<>>, gapped |-> FALSE,
   lastgap |-> <<>>]

\* Mutant: the loop ends one completion early.
AwaitedCompletions_OneLess(n) == n - 1

\* int nb=nblist[Globals::my_rank]; the list of the rank has nblist[my_rank]
\* blocks, n here.
AwaitedCompletions(n) == n

InitEX ==
  /\ pc = "exchange"
  /\ status = "ok"
  /\ nranks = 2
  /\ proc \in Procs
  /\ phase = FirstPhase(proc)
  /\ pmb = 1
  /\ \E n \in 0..MaxList :
       /\ blk \in [1..n -> {FreshBlock(rem) : rem \in IF proc = "AMR" THEN BOOLEAN ELSE {TRUE}}]
       /\ us_nb = IF proc = "UpdateOneStep" THEN AwaitedCompletions(n) ELSE 0
  /\ IF proc = "AMR"
     THEN \E n \in 0..MaxList : oblk \in [1..n -> {FreshBlock(rem) : rem \in BOOLEAN}]
     ELSE oblk = <<>>
  /\ MeshIdle /\ TimeIdle /\ onb = NoValue /\ ctor = NoValue /\ IoIdle

AtBlock(ph) == phase = ph /\ pmb <= Len(blk)

NextBlock == /\ pmb' = pmb + 1
             /\ UNCHANGED <<pc, status, nranks, proc, phase, oblk, meshvars, timevars, onb, ctor, iovars>>

\* UpdateOneStep, the first loop: first_task=0; num_tasks_todo=ntasks;
\* StartReceivingAll.
StartReceivingAll ==
  /\ AtBlock("us_init")
  /\ blk' = [blk EXCEPT ![pmb].todo = NTasks, ![pmb].recv = TRUE]
  /\ NextBlock /\ UNCHANGED us_nb

\* The call DoOneTask(pmb) with result res on the block at pmb, which had
\* todo tasks left: the other blocks see one more call since their last.
AfterCall(b, todo, res) ==
  [c \in DOMAIN blk |->
     IF c = b
     THEN [blk[c] EXCEPT !.todo = todo,
                         !.reported = IF res = "TL_COMPLETE" THEN @ + 1 ELSE @,
                         !.sent = @ \/ todo < blk[c].todo,
                         !.called = TRUE,
                         !.gapped = blk[c].called,
                         !.lastgap = IF blk[c].called THEN blk[c].since ELSE <<>>,
                         !.since = <<>>]
     ELSE [blk[c] EXCEPT !.since = Append(@, b)]]

\* if(ptlist->DoOneTask(pmb)==TL_COMPLETE) nb--; pmb=pmb->next; a task ran.
DoOneTaskRuns ==
  /\ AtBlock("us_main")
  /\ blk[pmb].todo > 0
  /\ \E res \in {IF blk[pmb].todo = 1 THEN "TL_COMPLETE" ELSE "TL_RUNNING"} :
       /\ blk' = AfterCall(pmb, blk[pmb].todo - 1, res)
       /\ us_nb' = IF res = "TL_COMPLETE" THEN us_nb - 1 ELSE us_nb
  /\ NextBlock

\* The same call waiting on the block: the loop variable stays.
DoOneTaskSkips_Waits ==
  /\ AtBlock("us_main")
  /\ blk' = AfterCall(pmb, blk[pmb].todo,
                      IF blk[pmb].todo = 0 THEN "TL_NOTHING_TO_DO" ELSE "TL_STUCK")
  /\ UNCHANGED <<pc, status, nranks, proc, phase, pmb, us_nb, oblk, meshvars, timevars, onb, ctor, iovars>>

\* The same call when no task of the block can run now (or none is left).
DoOneTaskSkips ==
  /\ AtBlock("us_main")
  /\ blk' = AfterCall(pmb, blk[pmb].todo,
                      IF blk[pmb].todo = 0 THEN "TL_NOTHING_TO_DO" ELSE "TL_STUCK")
  /\ NextBlock /\ UNCHANGED us_nb

\* UpdateOneStep, the last loop.
ClearBoundaryAll ==
  /\ AtBlock("us_clear")
  /\ blk' = [blk EXCEPT ![pmb].cleared = TRUE]
  /\ NextBlock /\ UNCHANGED us_nb

\* One loop that posts the receives of a block and sends at once.
StartReceivingForInit_AndSend ==
  /\ AtBlock("in_recv")
  /\ blk' = [blk EXCEPT ![pmb].recv = TRUE, ![pmb].sent = TRUE]
  /\ NextBlock /\ UNCHANGED us_nb

\* Initialize, first loop: pbval->Initialize(); StartReceivingForInit().
StartReceivingForInit ==
  /\ AtBlock("in_recv")
  /\ blk' = [blk EXCEPT ![pmb].recv = TRUE]
  /\ NextBlock /\ UNCHANGED us_nb

\* Initialize, second loop: SendHydroBoundaryBuffers (and the field's).
SendBoundaryBuffers ==
  /\ AtBlock("in_send")
  /\ blk' = [blk EXCEPT ![pmb].sent = TRUE]
  /\ NextBlock /\ UNCHANGED us_nb

\* Initialize, third loop: ReceiveHydroBoundaryBuffersWithWait,
\* ClearBoundaryForInit and the rest of the block's set-up.
ReceiveWithWait ==
  /\ AtBlock("in_wait")
  /\ blk' = [blk EXCEPT ![pmb].cleared = TRUE]
  /\ NextBlock /\ UNCHANGED us_nb

\* AMR Step 5, one new block n of nbs..nbe: MPI_Irecv unless the data is on
\* this rank.
AMRStartReceiving ==
  /\ AtBlock("amr_recv")
  /\ blk' = [blk EXCEPT ![pmb].recv = blk[pmb].remote]
  /\ NextBlock /\ UNCHANGED us_nb

\* AMR Step 6, one old block n of onbs..onbe: MPI_Isend unless the new
\* block is on this rank.
AMRStartSending ==
  /\ phase = "amr_send" /\ pmb <= Len(oblk)
  /\ oblk' = [oblk EXCEPT ![pmb].sent = oblk[pmb].remote]
  /\ pmb' = pmb + 1
  /\ UNCHANGED <<pc, status, nranks, proc, phase, us_nb, blk, meshvars, timevars, onb, ctor, iovars>>

\* The loop whose variable reached the end of its list is left.  The main
\* loop of UpdateOneStep starts another sweep while nb > 0.
PhaseAfter(ph, n) ==
  IF ph = "us_init" THEN (IF n > 0 THEN "us_main" ELSE "us_clear")
  ELSE IF ph = "us_main" THEN (IF n > 0 THEN "us_main" ELSE "us_clear")
  ELSE IF ph = "in_recv" THEN "in_send"
  ELSE IF ph = "in_send" THEN "in_wait"
  ELSE IF ph = "amr_recv" THEN "amr_send"
  ELSE "returned"

LoopEnd ==
  /\ phase # "returned"
  /\ pmb > (IF phase = "amr_send" THEN Len(oblk) ELSE Len(blk))
  /\ phase' = PhaseAfter(phase, us_nb)
  /\ pmb' = 1
  /\ UNCHANGED <<pc, status, nranks, proc, us_nb, blk, oblk, meshvars, timevars, onb, ctor, iovars>>

NextEX ==
  \/ StartReceivingAll \/ DoOneTaskRuns \/ DoOneTaskSkips \/ ClearBoundaryAll
  \/ StartReceivingForInit \/ SendBoundaryBuffers \/ ReceiveWithWait
  \/ AMRStartReceiving \/ AMRStartSending
  \/ LoopEnd

SpecEX == InitEX /\ [][NextEX]_vars

\* The same, every step of the rank is eventually taken and a block whose
\* call comes round again and again eventually has a task that can run.
SpecEXFair ==
  /\ SpecEX
  /\ WF_vars(NextEX)
  /\ \A b \in 1..MaxList : SF_vars(DoOneTaskRuns /\ pmb = b)

Blocks == DOMAIN blk

\* C15: UpdateOneStep returns only after every block of the list has
\* reported TL_COMPLETE, and ClearBoundaryAll is called on a block only after
\* all blocks of the list have reported it, the completions awaited being as
\* many as the blocks of the list.
C15_ReturnsAfterAllComplete ==
  proc = "UpdateOneStep" =>
    /\ phase = "returned" => \A b \in Blocks : blk[b].reported = 1 /\ blk[b].todo = 0
    /\ (\E b \in Blocks : blk[b].cleared) => \A c \in Blocks : blk[c].reported = 1
    /\ phase \in {"us_clear", "returned"} => us_nb = 0

C15_Witness ==
  /\ proc = "UpdateOneStep" /\ phase = "returned" /\ Len(blk) = MaxList
  /\ \A b \in Blocks : blk[b].cleared /\ blk[b].gapped

\* The blocks from a to b, in list order.
Span(a, b) == [i \in 1..(b - a + 1) |-> a + i - 1]

\* C16 (the sweeps): in the main loop of UpdateOneStep the calls of DoOneTask
\* go through the list in order, one call per block and sweep, whether or not
\* the block had a task that could run: between two calls on a block every
\* other block was called exactly once.
SweepOrder ==
  (proc = "UpdateOneStep" /\ phase = "us_main") =>
    \A b \in Blocks :
      /\ blk[b].since = IF b < pmb THEN Span(b + 1, pmb - 1)
                        ELSE IF blk[b].called THEN Span(b + 1, Len(blk)) \o Span(1, pmb - 1)
                        ELSE Span(1, pmb - 1)
      /\ blk[b].gapped =>
           blk[b].lastgap = Span(b + 1, Len(blk)) \o Span(1, b - 1)

\* C16: polling fairness of UpdateOneStep: the sweeps are as above, and if
\* the tasks of every block eventually can run, UpdateOneStep returns.
C16_PollingFairness ==
  /\ []SweepOrder
  /\ (proc = "UpdateOneStep") ~> (phase = "returned")

\* A block that was skipped while a block after it ran a task.
C16_Witness ==
  /\ proc = "UpdateOneStep" /\ phase = "us_main" /\ Len(blk) = MaxList
  /\ blk[1].todo = NTasks /\ blk[1].gapped
  /\ blk[2].todo = 0

\* C17: in each of the three procedures no block has sent before the
\* receives of all blocks of the rank are posted.
C17_ReceivesBeforeSends ==
  (\E b \in Blocks : blk[b].sent) \/ (\E o \in DOMAIN oblk : oblk[o].sent)
    => \A b \in Blocks : blk[b].recv = blk[b].remote

C17_Witness ==
  /\ proc = "AMR" /\ Len(blk) = MaxList
  /\ \E o \in DOMAIN oblk : oblk[o].sent
  /\ \E b \in Blocks : blk[b].recv
  /\ \E b \in Blocks : ~blk[b].remote

----------------------------------------------------------------------------
\* Mesh::Mesh (fresh start), from the first parameter to the allocation of
\* loclist.  A step of the model is one section of the constructor: it reads
\* the parameters of the section from the input file and makes the checks of
\* the section; ctor keeps what was read and derived.

MaxRegions == 2   \* <refinement> blocks in the input file

Threads   == {0, 1}
MeshNx1   == {2, 8}
MeshNx23  == {0, 1, 8}
CtorCfls  == {RRatio(1, 2), RFromInt(1), RRatio(3, 2)}
Extents   == {RZero, RFromInt(1)}     \* x?max, with x?min = 0
Rats      == {RRatio(89, 100), RRatio(9, 10), RFromInt(1), RRatio(11, 10), RRatio(12, 10)}
BlockNx   == {-4, 0, 3, 4, 5, 8}
NumLevels == {1, 2, 70}
RefLevels == {0, 1, 70}
\* x?min and x?max of a refinement region, the mesh being [0, 1].
RegionSpans == {<<RZero, RFromInt(1)>>, <<RFromInt(1), RZero>>,
                <<RFromInt(-1), RFromInt(1)>>, <<RZero, RFromInt(2)>>}

RAbs(x) == <<Abs(x[1]), x[2]>>

\* a % b of C++ for a >= 0 and b # 0.
CRem(a, b) == a % Abs(b)

\* for(root_level=0;(1<<root_level)<nbmax;root_level++);
RECURSIVE RootLevel(_, _)
RootLevel(l, nbmax) == IF Pow2(l) < nbmax THEN RootLevel(l + 1, nbmax) ELSE l

Max(a, b) == IF a > b THEN a ELSE b

\* Nothing read yet (<<>>: not read), nothing created: rooted, CreateRootGrid
\* was called; nadd, the calls of AddMeshBlock; listed, loclist was allocated.
NoCtor ==
  [threads |-> NoValue, nx |-> <<>>, cfl |-> <<>>, dim |-> 0,
   xmax |-> <<>>, rat |-> <<>>, bnx |-> <<>>, adaptive |-> NoValue,
   numlevel |-> NoValue, regions |-> <<>>, multilevel |-> FALSE,
   rooted |-> FALSE, nadd |-> 0, listed |-> FALSE, error |-> NoValue]

InitCtor ==
  /\ pc = "start"
  /\ status = "ok"
  /\ nranks = 1
  /\ ctor = NoCtor
  /\ MeshIdle /\ TimeIdle /\ onb = NoValue /\ StepIdle /\ IoIdle

\* throw std::runtime_error: the constructor is left with the message e.
Throw(c, e) ==
  /\ status' = "fatal"
  /\ ctor' = [c EXCEPT !.error = e]

ctorframe == <<nranks, nbtotal, costlist, ranklist, nslist, nblist, mb, neighbor, hist,
               timevars, onb, stepvars, iovars>>

\* Lines 79-143: the time parameters, num_threads, the cells of the mesh,
\* the checks on them and on the CFL number, dim.
ReadMeshCells ==
  /\ pc = "start" /\ status = "ok"
  /\ \E th \in Threads, n1 \in MeshNx1, n2 \in MeshNx23, n3 \in MeshNx23, cf \in CtorCfls :
       \E c \in {[ctor EXCEPT !.threads = th]} :
         IF th < 1 THEN Throw(c, "num_threads")
         ELSE IF n1 < 4 THEN Throw([c EXCEPT !.nx = <<n1>>], "nx1")
         ELSE IF n2 < 1 THEN Throw([c EXCEPT !.nx = <<n1, n2>>], "nx2")
         ELSE \E d \in {[c EXCEPT !.nx = <<n1, n2, n3>>, !.cfl = cf]} :
              IF n3 < 1 THEN Throw(d, "nx3")
              ELSE IF n2 = 1 /\ n3 > 1 THEN Throw(d, "x1-x3 plane")
              ELSE IF RGt(cf, RFromInt(1)) /\ n2 = 1 THEN Throw(d, "CFL 1D")
              ELSE IF RGt(cf, RRatio(1, 2)) /\ n2 > 1 THEN Throw(d, "CFL 2D/3D")
              ELSE /\ ctor' = [d EXCEPT !.dim = IF n3 > 1 THEN 3 ELSE IF n2 > 1 THEN 2 ELSE 1]
                   /\ status' = "ok"
  /\ pc' = "sized"
  /\ UNCHANGED <<tree, cfg, loclist, ctorframe>>

\* The first axis d of 1..3 with bad(d), or 0.
FirstAxis(bad(_)) == IF bad(1) THEN 1 ELSE IF bad(2) THEN 2 ELSE IF bad(3) THEN 3 ELSE 0

\* Lines 145-193: the physical size of the mesh and the cell-size ratios.
ReadMeshSize ==
  /\ pc = "sized" /\ status = "ok"
  /\ \E xm \in [1..3 -> Extents], rt \in [1..3 -> Rats] :
       \E c \in {[ctor EXCEPT !.xmax = xm]} :
         LET BadExtent(d) == RGe(RZero, xm[d])
             BadRatio(d)  == RGt(RAbs(RSub(rt[d], RFromInt(1))), RRatio(1, 10))
         IN IF FirstAxis(BadExtent) # 0 THEN Throw(c, "xmax")
            ELSE IF FirstAxis(BadRatio) # 0 THEN Throw([c EXCEPT !.rat = rt], "xrat")
            ELSE /\ ctor' = [c EXCEPT !.rat = rt]
                 /\ status' = "ok"
  /\ pc' = "shaped"
  /\ UNCHANGED <<tree, cfg, loclist, ctorframe>>

\* Lines 206-234: the MeshBlock size (an inactive axis takes the mesh's), the
\* mesh must be divisible by it, and it must be at least 4 in active axes.
\* The remainder by a block size 0 is undefined: the run traps, or goes on
\* with some remainder and fails one of the two checks.
ReadBlockSize ==
  /\ pc = "shaped" /\ status = "ok"
  /\ \E b1 \in BlockNx,
        b2 \in IF ctor.dim >= 2 THEN BlockNx ELSE {ctor.nx[2]},
        b3 \in IF ctor.dim = 3 THEN BlockNx ELSE {ctor.nx[3]} :
       \E c \in {[ctor EXCEPT !.bnx = <<b1, b2, b3>>]} :
         IF b1 = 0 \/ b2 = 0 \/ b3 = 0
         THEN /\ status' \in {"ub", "fatal"}
              /\ ctor' = [c EXCEPT !.error = IF status' = "ub" THEN "trap"
                                             ELSE "block_size"]
         ELSE IF \E d \in 1..3 : CRem(c.nx[d], c.bnx[d]) # 0 THEN Throw(c, "divisible")
         ELSE IF b1 < 4 \/ (b2 < 4 /\ c.dim >= 2) \/ (b3 < 4 /\ c.dim = 3)
         THEN Throw(c, "block_size")
         ELSE /\ ctor' = c
              /\ status' = "ok"
  /\ pc' = "blocked"
  /\ UNCHANGED <<tree, cfg, loclist, ctorframe>>

\* Lines 236-269: the root grid, the root level, tree.CreateRootGrid, the
\* refinement mode and max_level.
CtorCreateRootGrid ==
  /\ pc = "blocked" /\ status = "ok"
  /\ \E ad \in BOOLEAN, nl \in NumLevels :
     \E n1 \in {ctor.nx[1] \div ctor.bnx[1]}, n2 \in {ctor.nx[2] \div ctor.bnx[2]},
        n3 \in {ctor.nx[3] \div ctor.bnx[3]} :
     \E rl \in {RootLevel(0, Max(Max(n1, n2), n3))} :
     \E ml \in {IF ad THEN nl + rl - 1 ELSE 63} :
     \E c \in {[dim |-> ctor.dim, nrbx1 |-> n1, nrbx2 |-> n2, nrbx3 |-> n3,
                root_level |-> rl, max_level |-> ml, bcs |-> AllOutflow,
                multilevel |-> ad, face_only |-> FALSE]} :
       /\ cfg' = c
       /\ tree' = CreateRootGrid(c)
       /\ \E d \in {[ctor EXCEPT !.adaptive = ad, !.multilevel = ad, !.rooted = TRUE,
                                 !.numlevel = IF ad THEN nl ELSE NoValue]} :
            IF ad /\ ml > 63 THEN Throw(d, "numlevel")
            ELSE /\ ctor' = d
                 /\ status' = "ok"
  /\ pc' = "rooted"
  /\ UNCHANGED <<loclist, ctorframe>>

\* Lines 271-400, one <refinement> block of the input file: the region and
\* its level are read and checked, then AddMeshBlock is called on the blocks
\* of the region (a region that spans the mesh holds every root block).
ReadRefinementBlock ==
  /\ pc = "rooted" /\ status = "ok"
  /\ Len(ctor.regions) < MaxRegions
  /\ \E lev \in RefLevels,
        s1 \in RegionSpans,
        s2 \in IF ctor.dim >= 2 THEN RegionSpans ELSE {<<RZero, ctor.xmax[2]>>},
        s3 \in IF ctor.dim >= 3 THEN RegionSpans ELSE {<<RZero, ctor.xmax[3]>>} :
     \E sp \in {<<s1, s2, s3>>} :
     \E lrlev \in {lev + cfg.root_level} :
     \E c \in {[ctor EXCEPT !.regions = Append(@, [level |-> lev, span |-> sp]),
                            !.multilevel = @ \/ lrlev # cfg.root_level]} :
       IF lev < 1 THEN Throw(c, "level") /\ UNCHANGED tree
       ELSE IF lrlev > cfg.max_level THEN Throw(c, "max_level") /\ UNCHANGED tree
       ELSE IF \E d \in 1..3 : RGt(sp[d][1], sp[d][2])
       THEN Throw(c, "invalid region") /\ UNCHANGED tree
       ELSE IF \E d \in 1..3 : RLt(sp[d][1], RZero) \/ RGt(sp[d][2], ctor.xmax[d])
       THEN Throw(c, "region outside") /\ UNCHANGED tree
       ELSE /\ tree' = RefineSet(tree, cfg, CreateRootGrid(cfg) \cap tree)
            /\ ctor' = [c EXCEPT !.nadd = @ + Cardinality(CreateRootGrid(cfg))]
            /\ status' = "ok"
  /\ UNCHANGED <<pc, cfg, loclist, ctorframe>>

\* Lines 402-420: with multilevel the block sizes must be even; then the
\* blocks are counted and loclist is allocated and filled.
FinishHierarchy ==
  /\ pc = "rooted" /\ status = "ok"
  /\ IF /\ ctor.multilevel
        /\ \/ ctor.bnx[1] % 2 = 1
           \/ (ctor.bnx[2] % 2 = 1 /\ ctor.bnx[2] > 1)
           \/ (ctor.bnx[3] % 2 = 1 /\ ctor.bnx[3] > 1)
     THEN Throw(ctor, "odd block") /\ UNCHANGED <<cfg, loclist>>
     ELSE /\ cfg' = [cfg EXCEPT !.multilevel = ctor.multilevel]
          /\ loclist' = GetMeshBlockList(tree, cfg.dim)
          /\ ctor' = [ctor EXCEPT !.listed = TRUE]
          /\ UNCHANGED status
  /\ pc' = "listed"
  /\ UNCHANGED <<tree, ctorframe>>

NextCtor ==
  \/ ReadMeshCells \/ ReadMeshSize \/ ReadBlockSize \/ CtorCreateRootGrid
  \/ ReadRefinementBlock \/ FinishHierarchy

SpecCtor == InitCtor /\ [][NextCtor]_vars

\* x lies in [0.9, 1.1] (x = m * 2^e with e < 0).
InRatioRange(x) == 9 * Pow2(-x[2]) <= 10 * x[1] /\ 10 * x[1] <= 11 * Pow2(-x[2])

\* The constraints of a configuration, on what was read of it.
ValidCells ==
  /\ Len(ctor.nx) >= 1 => ctor.nx[1] >= 4
  /\ Len(ctor.nx) >= 2 => ctor.nx[2] >= 1
  /\ Len(ctor.nx) >= 3 => ctor.nx[3] >= 1 /\ ~(ctor.nx[2] = 1 /\ ctor.nx[3] > 1)
  /\ Len(ctor.cfl) > 0 =>
       IF ctor.nx[2] = 1 THEN RGe(RFromInt(1), ctor.cfl) ELSE RGe(RRatio(1, 2), ctor.cfl)

ValidRatios == \A d \in DOMAIN ctor.rat : InRatioRange(ctor.rat[d])

ValidBlocks ==
  Len(ctor.bnx) > 0 =>
    /\ \A d \in 1..3 : ctor.bnx[d] # 0 /\ CRem(ctor.nx[d], ctor.bnx[d]) = 0
    /\ \A d \in 1..ctor.dim : ctor.bnx[d] >= 4
    /\ ctor.multilevel => \A d \in 1..ctor.dim : ctor.bnx[d] % 2 = 0

CtorEnded == status # "ok" \/ pc = "listed"

\* C19 as stated: the constructor ends in the fatal error for every
\* configuration that violates a constraint on the mesh cells, the CFL
\* number, the cell-size ratios or the block size (0 and negative block
\* sizes included), and constructs a Mesh for no such configuration.
C19_InvalidConfigIsFatal ==
  (CtorEnded /\ ~(ValidCells /\ ValidRatios /\ ValidBlocks)) => status = "fatal"

\* C20 as stated: when the constructor throws a configuration error, the
\* tree was not created, AddMeshBlock was not called and no list was
\* allocated.
C20_ErrorsBeforeTree ==
  status = "fatal" => ~ctor.rooted /\ ctor.nadd = 0 /\ ~ctor.listed

----------------------------------------------------------------------------
\* Specification SpecFin: the end of both Mesh constructors, from the check
\* "if there are sufficient blocks" on: the fresh constructor (lines 424-478)
\* and the restart constructor (lines 612-660).  The mesh is a uniform 1-D
\* mesh of nbtotal root blocks; the fresh constructor sets every cost to 1.0,
\* the restart constructor has read the costs from the file.

\* The values of the constructor argument test_flag: 0, and the rank count
\* of a mesh test.
TestFlags == 0..MaxRanks

UniformMesh(nb) == Mesh1(1, nb, 1, 1, RootLevel(0, nb), FALSE, AllOutflow, TRUE)

InitFin ==
  /\ pc = "counted"
  /\ status = "ok"
  /\ nbtotal \in 1..MaxBlocks
  /\ \E kind \in {"fresh", "restart"}, mpi \in BOOLEAN, tf \in TestFlags,
        launched \in 1..MaxRanks :
       /\ ctor = [kind |-> kind, mpi |-> mpi, test_flag |-> tf, fewer |-> FALSE,
                  warned |-> FALSE, balanced |-> FALSE, tested |-> FALSE,
                  error |-> "no"]
       \* if(test_flag>0) Globals::nranks=test_flag; one rank without MPI
       /\ nranks = IF tf > 0 THEN tf ELSE IF mpi THEN launched ELSE 1
       /\ ~mpi => launched = 1
       /\ costlist \in IF kind = "fresh" THEN {[g \in 0..(nbtotal - 1) |-> RFromInt(1)]}
                       ELSE Arr(nbtotal, Costs)
  /\ cfg = UniformMesh(nbtotal)
  /\ tree = CreateRootGrid(cfg)
  /\ loclist = GetMeshBlockList(tree, 1)
  /\ ranklist = [g \in 0..(nbtotal - 1) |-> -1]
  /\ \E s \in Garbage, b \in Garbage :
       /\ nslist = [r \in 0..(nranks - 1) |-> s]
       /\ nblist = [r \in 0..(nranks - 1) |-> b]
  /\ mb = NoValue /\ neighbor = NoValue /\ hist = NoValue
  /\ TimeIdle /\ onb = NoValue /\ StepIdle /\ IoIdle

finframe == <<nranks, nbtotal, costlist, tree, cfg, loclist, hist,
              timevars, onb, stepvars, iovars>>

\* #ifdef MPI_PARALLEL  if(nbtotal < Globals::nranks) ...: fatal when
\* test_flag==0; otherwise a warning, after which the fresh constructor goes
\* on and the restart constructor returns.
CheckSufficientBlocks ==
  /\ pc = "counted" /\ status = "ok"
  /\ IF ctor.mpi /\ nbtotal < nranks
     THEN IF ctor.test_flag = 0
          THEN /\ Throw([ctor EXCEPT !.fewer = TRUE], "too few")
               /\ pc' = "thrown"
          ELSE /\ ctor' = [ctor EXCEPT !.fewer = TRUE, !.warned = TRUE]
               /\ pc' = IF ctor.kind = "restart" THEN "returned" ELSE "checked"
               /\ UNCHANGED status
     ELSE /\ ctor' = [ctor EXCEPT !.fewer = nbtotal < nranks]
          /\ pc' = "checked"
          /\ UNCHANGED status
  /\ UNCHANGED <<ranklist, nslist, nblist, mb, neighbor>>
  /\ UNCHANGED finframe

\* LoadBalancing(costlist, ranklist, nslist, nblist, nbtotal);
CtorLoadBalancing ==
  /\ pc = "checked" /\ status = "ok"
  /\ \E lb \in {LoadBalancing(costlist, ranklist, nslist, nblist, nbtotal, nranks)} :
        /\ ranklist' = lb.rlist
        /\ nslist' = lb.slist
        /\ nblist' = lb.nlist
        /\ status' = IF lb.thrown THEN "fatal" ELSE "ok"
        /\ ctor' = [ctor EXCEPT !.balanced = TRUE,
                                !.error = IF lb.thrown THEN "no block" ELSE @]
  /\ pc' = "balanced"
  /\ UNCHANGED <<mb, neighbor>>
  /\ UNCHANGED finframe

\* if(test_flag>0) { if(Globals::my_rank==0) MeshTest(dim); return; }
CtorMeshTest ==
  /\ pc = "balanced" /\ status = "ok"
  /\ ctor.test_flag > 0
  /\ ctor' = [ctor EXCEPT !.tested = TRUE]
  /\ pc' = "returned"
  /\ UNCHANGED <<status, ranklist, nslist, nblist, mb, neighbor>>
  /\ UNCHANGED finframe

\* The MeshBlock list of every rank, and the neighbors of its blocks.  A
\* rank that received no block reads its unwritten nslist and nblist.
CtorCreateBlocks ==
  /\ pc = "balanced" /\ status = "ok"
  /\ ctor.test_flag = 0
  /\ IF \E r \in 0..(nranks - 1) : CountRank(ranklist, r) = 0
     THEN /\ status' \in {"stale", "ub"}
          /\ UNCHANGED <<mb, neighbor>>
     ELSE /\ mb' = BuildAllLists(loclist, nslist, nblist, nranks)
          /\ neighbor' = SearchAll(tree, cfg, loclist, ranklist, nslist)
          /\ UNCHANGED status
  /\ pc' = "constructed"
  /\ UNCHANGED <<ctor, ranklist, nslist, nblist>>
  /\ UNCHANGED finframe

NextFin == CheckSufficientBlocks \/ CtorLoadBalancing \/ CtorMeshTest \/ CtorCreateBlocks

SpecFin == InitFin /\ [][NextFin]_vars

\* The constructor has returned or thrown.
FinEnded == pc \in {"thrown", "returned", "constructed"} \/ status = "fatal"

\* C21: with fewer blocks than ranks (MPI build) a constructor ends in the
\* fatal error "Too few blocks" when test_flag is 0; in a mesh test it warns,
\* goes on to the load balancing and, if that succeeds, to the mesh-test
\* report.
C21_TooFewBlocks ==
  (FinEnded /\ ctor.mpi /\ nbtotal < nranks) =>
     IF ctor.test_flag = 0
     THEN status = "fatal" /\ ctor.error = "too few"
     ELSE /\ ctor.warned /\ ctor.balanced
          /\ status = "ok" => ctor.tested

----------------------------------------------------------------------------
\* Specification SpecRS: the restart constructor of Mesh (lines 489-660) and
\* the restart constructor of MeshBlock (lines 869-969) reading a restart
\* file.  The file is a length in bytes and what its writer stored: the
\* block count, the block table and, from each block's offset, the data of
\* the block.  One rank (no MPI), test_flag = 0, a valid CFL number.

\* Sizes of the types, in bytes.
SizeofInt == 4
SizeofReal == 8
SizeofRegionSize == 88
SizeofLogicalLocation == 32
SizeofOffset == 8

\* Largest number of blocks in the table of the file.
MaxTable == 2

\* IOWrapper::Read(buf, size, count) at position f.pos of a file of f.len
\* bytes: the number of whole items read; the position moves behind them.
ReadItems(f, size, count) ==
  IF f.pos >= f.len THEN 0
  ELSE IF (f.len - f.pos) \div size >= count THEN count ELSE (f.len - f.pos) \div size

\* "if(resfile.Read(...)!=count) nerr++;" for the reads rs = <<size, count>>
\* in order: the file after them, the number of short reads and the reads
\* made, each <<position, bytes asked for>>.
RECURSIVE ReadAll(_, _, _)
ReadAll(f, rs, k) ==
  IF k > Len(rs) THEN [f |-> f, nerr |-> 0, made |-> <<>>]
  ELSE CHOOSE res \in
         {[f |-> rest.f,
           nerr |-> rest.nerr + (IF got # rs[k][2] THEN 1 ELSE 0),
           made |-> <<<<f.pos, rs[k][1] * rs[k][2]>>>> \o rest.made] :
            <<got, rest>> \in
              {<<g, ReadAll([f EXCEPT !.pos = @ + g * rs[k][1]], rs, k + 1)>> :
                 g \in {ReadItems(f, rs[k][1], rs[k][2])}}} : TRUE

\* The reads of the header (lines 519-526).
HeaderReads ==
  <<<<SizeofInt, 1>>, <<SizeofInt, 1>>, <<SizeofRegionSize, 1>>, <<SizeofInt, 6>>,
    <<SizeofReal, 1>>, <<SizeofReal, 1>>, <<SizeofInt, 1>>>>

\* The reads of one entry of the block table (lines 575-580).
EntryReads ==
  <<<<SizeofInt, 1>>, <<SizeofLogicalLocation, 1>>, <<SizeofReal, 1>>, <<SizeofOffset, 1>>>>

RECURSIVE Repeat(_, _)
Repeat(sq, n) == IF n = 0 THEN <<>> ELSE sq \o Repeat(sq, n - 1)

RECURSIVE SumBytes(_, _)
SumBytes(rs, k) == IF k > Len(rs) THEN 0 ELSE rs[k][1] * rs[k][2] + SumBytes(rs, k + 1)

\* The reads of the MeshBlock constructor: block_size and block_bcs (lines
\* 887-888), then u, w and w1 under GENERAL_RELATIVITY, and the face fields
\* under MAGNETIC_FIELDS_ENABLED (lines 948-963).  fs: GetSize() of the arrays.
BlockHeadReads == <<<<SizeofRegionSize, 1>>, <<SizeofInt, 6>>>>

BlockDataReads(fs, gr, mhd) ==
  <<<<SizeofReal, fs.u>>>>
  \o (IF gr THEN <<<<SizeofReal, fs.w>>, <<SizeofReal, fs.w1>>>> ELSE <<>>)
  \o (IF mhd THEN <<<<SizeofReal, fs.x1f>>, <<SizeofReal, fs.x2f>>, <<SizeofReal, fs.x3f>>>>
      ELSE <<>>)

\* Mutant: w1 is left out of the size.
GetBlockSizeInBytes_NoW1(fs, gr, mhd) ==
  SizeofRegionSize + SizeofInt * 6 + SizeofReal * fs.u
  + (IF gr THEN SizeofReal * fs.w ELSE 0)
  + (IF mhd THEN SizeofReal * (fs.x1f + fs.x2f + fs.x3f) ELSE 0)

\* MeshBlock::GetBlockSizeInBytes
GetBlockSizeInBytes(fs, gr, mhd) ==
  SizeofRegionSize + SizeofInt * 6 + SizeofReal * fs.u
  + (IF gr THEN SizeofReal * fs.w + SizeofReal * fs.w1 ELSE 0)
  + (IF mhd THEN SizeofReal * (fs.x1f + fs.x2f + fs.x3f) ELSE 0)

\* The sizes of the arrays of a block (the same for every block of a mesh).
FieldSizes ==
  {[u |-> 2, w |-> 2, w1 |-> 2, x1f |-> 3, x2f |-> 1, x3f |-> 1],
   [u |-> 1, w |-> 1, w1 |-> 1, x1f |-> 2, x2f |-> 2, x3f |-> 1]}

\* The locations a block table holds: a 1-D mesh of two root blocks at level
\* 1; tables a writer cannot have produced (a block twice, a block and its
\* parent) are included.
TableLocs == {Loc(1, 0, 0, 0), Loc(1, 1, 0, 0), Loc(2, 0, 0, 0)}

RestartMesh ==
  [dim |-> 1, nrbx1 |-> 2, nrbx2 |-> 1, nrbx3 |-> 1, root_level |-> 1,
   max_level |-> 2, bcs |-> AllOutflow, multilevel |-> TRUE, face_only |-> FALSE]

\* The first byte behind the block table of n blocks.
DataStart(n) == SumBytes(HeaderReads, 1) + n * SumBytes(EntryReads, 1)

\* The offsets the writer stored: the blocks follow the table, spaced by
\* GetBlockSizeInBytes.
StoredOffset(n, fs, gr, mhd) ==
  [i \in 0..(n - 1) |-> DataStart(n) + i * GetBlockSizeInBytes(fs, gr, mhd)]

\* The lengths of the file: every multiple of sizeof(int) up to a length
\* that holds the data of all blocks (and a little more).
FileLengths(n, fs, gr, mhd) ==
  {l \in 0..(DataStart(n) + n * GetBlockSizeInBytes(fs, gr, mhd) + SizeofInt) :
     l % SizeofInt = 0}

\* tree.AddMeshBlockWithoutRefine for every entry of the table: a location
\* with another entry below it becomes an internal node.
RebuiltTree(locs) ==
  {l \in Range(locs) :
     ~\E m \in Range(locs) : m.level > l.level /\ AncestorAt(m, l.level) = l}

InitRS ==
  /\ pc = "open"
  /\ status = "ok"
  /\ nranks = 1
  /\ \E n \in 1..MaxTable, fs \in FieldSizes, gr \in BOOLEAN, mhd \in BOOLEAN :
     \E locs \in [1..n -> TableLocs], len \in FileLengths(n, fs, gr, mhd) :
       resfile = [len |-> len, pos |-> 0, open |-> TRUE, nb |-> n, locs |-> locs,
                  fs |-> fs, gr |-> gr, mhd |-> mhd,
                  offset |-> StoredOffset(n, fs, gr, mhd),
                  short |-> FALSE, mismatch |-> FALSE, next |-> 0, made |-> <<>>]
  /\ cfg = RestartMesh
  /\ ctor = [kind |-> "restart", error |-> "no"]
  /\ nbtotal = 0
  /\ costlist = <<>> /\ ranklist = <<>> /\ nslist = <<>> /\ nblist = <<>>
  /\ tree = {} /\ loclist = <<>>
  /\ mb = <<>> /\ neighbor = NoValue /\ hist = NoValue
  /\ TimeIdle /\ onb = NoValue /\ StepIdle /\ xfer = NoValue

rsframe == <<nranks, cfg, neighbor, hist, timevars, onb, stepvars, xfer>>

\* "The restarting file is broken.": resfile.Close() and the throw.
BrokenFile(f) ==
  /\ resfile' = [f EXCEPT !.open = FALSE, !.short = TRUE]
  /\ Throw(ctor, "broken")

\* Lines 516-532: the header.
ReadHeader ==
  /\ pc = "open" /\ status = "ok"
  /\ \E rd \in {ReadAll(resfile, HeaderReads, 1)} :
       IF rd.nerr > 0
       THEN BrokenFile(rd.f) /\ UNCHANGED nbtotal
       ELSE /\ resfile' = rd.f
            /\ nbtotal' = resfile.nb
            /\ UNCHANGED <<status, ctor>>
  /\ pc' = "header"
  /\ UNCHANGED <<costlist, ranklist, nslist, nblist, tree, loclist, mb>>
  /\ UNCHANGED rsframe

\* Lines 552-590: the lists are allocated and the block table is read.
ReadBlockTable ==
  /\ pc = "header" /\ status = "ok"
  /\ \E rd \in {ReadAll(resfile, Repeat(EntryReads, nbtotal), 1)} :
       IF rd.nerr > 0
       THEN BrokenFile(rd.f) /\ UNCHANGED <<loclist, costlist>>
       ELSE /\ resfile' = rd.f
            /\ loclist' = ZeroBased(resfile.locs)
            /\ costlist' = [g \in 0..(nbtotal - 1) |-> RFromInt(1)]
            /\ UNCHANGED <<status, ctor>>
  /\ pc' = "table"
  /\ UNCHANGED <<nbtotal, ranklist, nslist, nblist, tree, mb>>
  /\ UNCHANGED rsframe

\* Lines 601-628: the tree is rebuilt from the table and its leaves are
\* counted; "Tree reconstruction failed" is thrown as it is; LoadBalancing.
RebuildTree ==
  /\ pc = "table" /\ status = "ok"
  /\ \E T \in {RebuiltTree(loclist)} :
     \E ll \in {GetMeshBlockList(T, cfg.dim)} :
       /\ tree' = T
       /\ loclist' = ll
       /\ IF Cardinality(DOMAIN ll) # nbtotal
          THEN /\ resfile' = [resfile EXCEPT !.mismatch = TRUE]
               /\ Throw(ctor, "tree")
               /\ UNCHANGED <<ranklist, nslist, nblist>>
          ELSE \E lb \in {LoadBalancing(costlist, [g \in 0..(nbtotal - 1) |-> -1],
                                         [r \in 0..0 |-> 0], [r \in 0..0 |-> 0],
                                         nbtotal, nranks)} :
                 /\ ranklist' = lb.rlist
                 /\ nslist' = lb.slist
                 /\ nblist' = lb.nlist
                 /\ UNCHANGED <<status, ctor, resfile>>
  /\ pc' = "tree"
  /\ UNCHANGED <<nbtotal, costlist, mb>>
  /\ UNCHANGED rsframe

\* MeshBlock::MeshBlock (restart) for block i = resfile.next of the loop at
\* lines 640-654: Seek(offset), the two reads of the block structure, and,
\* if they were complete, the reads of the data.
LoadBlock ==
  /\ pc = "tree" /\ status = "ok"
  /\ resfile.next < nbtotal
  /\ \E i \in {resfile.next} :
     \E hd \in {ReadAll([resfile EXCEPT !.pos = resfile.offset[i]], BlockHeadReads, 1)} :
       IF hd.nerr > 0
       THEN BrokenFile([hd.f EXCEPT !.made = Append(@, hd.made)]) /\ UNCHANGED mb
       ELSE \E dat \in {ReadAll(hd.f, BlockDataReads(resfile.fs, resfile.gr, resfile.mhd), 1)} :
            \E f \in {[dat.f EXCEPT !.made = Append(@, hd.made \o dat.made),
                                   !.next = i + 1]} :
              IF dat.nerr > 0
              THEN BrokenFile(f) /\ UNCHANGED mb
              ELSE /\ resfile' = f
                   /\ mb' = Append(mb, NewMeshBlock(i, i, loclist[i]))
                   /\ UNCHANGED <<status, ctor>>
  /\ UNCHANGED pc
  /\ UNCHANGED <<nbtotal, costlist, ranklist, nslist, nblist, tree, loclist>>
  /\ UNCHANGED rsframe

\* All blocks are loaded: the constructor returns.
ReturnRS ==
  /\ pc = "tree" /\ status = "ok"
  /\ resfile.next = nbtotal
  /\ pc' = "constructed"
  /\ UNCHANGED <<status, ctor, resfile>>
  /\ UNCHANGED <<nbtotal, costlist, ranklist, nslist, nblist, tree, loclist, mb>>
  /\ UNCHANGED rsframe

NextRS == ReadHeader \/ ReadBlockTable \/ RebuildTree \/ LoadBlock \/ ReturnRS

SpecRS == InitRS /\ [][NextRS]_vars

\* C22: a restart that met a short read, or rebuilt a tree with another
\* number of leaves than the stored nbtotal, ends in a fatal error, and the
\* file has been closed when the error is raised.
C22_IoFailureClosesFile ==
  /\ (resfile.short \/ resfile.mismatch) => status = "fatal" /\ ~resfile.open
  /\ pc = "constructed" =>
       resfile.len >= resfile.offset[nbtotal - 1]
                        + GetBlockSizeInBytes(resfile.fs, resfile.gr, resfile.mhd)

\* The reads made for block i of the list, each <<position, bytes>>.
\* They follow each other from the offset of the block.
RECURSIVE Contiguous(_, _, _)
Contiguous(made, k, at) ==
  k > Len(made) \/ (made[k][1] = at /\ Contiguous(made, k + 1, at + made[k][2]))

\* C23: the restart constructor of a block that it loads reads, from the block's offset on
\* and without a gap, RegionSize, 6 ints, u, then w and w1 only under general
\* relativity, then the three face fields only with magnetic fields: in all
\* exactly GetBlockSizeInBytes bytes, so that the data of a block ends where
\* the data of the next block begins.
C23_SizeIsBytesRead ==
  \A i \in 0..(Len(resfile.made) - 1) :
    (i < Len(mb)) =>
      LET made == resfile.made[i + 1]
          size == GetBlockSizeInBytes(resfile.fs, resfile.gr, resfile.mhd)
      IN /\ Contiguous(made, 1, resfile.offset[i])
         /\ [k \in 1..Len(made) |-> made[k][2]]
              = [k \in 1..Len(made) |->
                   (<<SizeofRegionSize, 6 * SizeofInt, SizeofReal * resfile.fs.u>>
                    \o (IF resfile.gr
                        THEN <<SizeofReal * resfile.fs.w, SizeofReal * resfile.fs.w1>>
                        ELSE <<>>)
                    \o (IF resfile.mhd
                        THEN <<SizeofReal * resfile.fs.x1f, SizeofReal * resfile.fs.x2f,
                               SizeofReal * resfile.fs.x3f>>
                        ELSE <<>>))[k]]
         /\ Len(made) = 3 + (IF resfile.gr THEN 2 ELSE 0) + (IF resfile.mhd THEN 3 ELSE 0)
         /\ SumBytes([k \in 1..Len(made) |-> <<made[k][2], 1>>], 1) = size
         /\ i + 1 < resfile.nb =>
              resfile.offset[i] + size = resfile.offset[i + 1]

C23_Witness ==
  /\ pc = "constructed" /\ nbtotal = MaxTable /\ resfile.gr /\ resfile.mhd
  /\ Len(resfile.made) = MaxTable

----------------------------------------------------------------------------
\* Specification SpecBC: Mesh::SetBlockSizeAndBoundaries applied to a block
\* of a mesh.  The block is at the root level, up to MaxRefine levels above
\* it, or DeepShift levels above it (max_level may be as large as 63).

\* A depth below the root level at which nrbx<<(ll-root_level) leaves the int.
DeepShift == 32

\* Root grids: nrbx1, nrbx2, nrbx3 (nx2 = 1 implies nx3 = 1).
RootGrids == {<<1, 1, 1>>, <<2, 1, 1>>, <<3, 1, 1>>, <<2, 2, 1>>, <<2, 3, 1>>, <<2, 2, 2>>}

\* Mesh-wide boundary codes: all outflow, all periodic, and one mixed set.
MeshBcs == {AllOutflow, AllPeriodic, [b \in 0..5 |-> IF b % 2 = 0 THEN 1 ELSE OutflowBC]}

BCMesh(g, bcs) ==
  [dim |-> IF g[3] > 1 THEN 3 ELSE IF g[2] > 1 THEN 2 ELSE 1,
   nrbx1 |-> g[1], nrbx2 |-> g[2], nrbx3 |-> g[3],
   root_level |-> RootLevel(0, Max(g[1], Max(g[2], g[3]))),
   max_level |-> 63, bcs |-> bcs, multilevel |-> TRUE, face_only |-> FALSE]

\* The indices of a block along an axis of nrb root blocks, k levels below
\* the root level: all of them when the extent is small, otherwise the
\* first ones.
AxisIndices(nrb, k) ==
  IF k <= MaxRefine THEN 0..(nrb * Pow2(k) - 1) ELSE 0..(nrb * Pow2(MaxRefine) - 1)

InitBC ==
  /\ pc = "located"
  /\ status = "ok"
  /\ nranks = 1
  /\ \E g \in RootGrids, bcs \in MeshBcs : cfg = BCMesh(g, bcs)
  /\ \E k \in (0..MaxRefine) \cup {DeepShift} :
     \E x1 \in AxisIndices(cfg.nrbx1, k),
        x2 \in IF cfg.dim >= 2 THEN AxisIndices(cfg.nrbx2, k) ELSE {0},
        x3 \in IF cfg.dim >= 3 THEN AxisIndices(cfg.nrbx3, k) ELSE {0} :
       ctor = [loc |-> Loc(cfg.root_level + k, x1, x2, x3), block_bcs |-> <<>>]
  /\ nbtotal = NoValue /\ costlist = NoValue /\ ranklist = NoValue
  /\ nslist = NoValue /\ nblist = NoValue /\ tree = NoValue
  /\ loclist = NoValue /\ mb = NoValue /\ neighbor = NoValue /\ hist = NoValue
  /\ TimeIdle /\ onb = NoValue /\ StepIdle /\ IoIdle

CallSetBlockSizeAndBoundaries ==
  /\ pc = "located"
  /\ \E k \in {ctor.loc.level - cfg.root_level} :
     \E w1 \in WildExtents(cfg.nrbx1, k), w2 \in WildExtents(cfg.nrbx2, k),
        w3 \in WildExtents(cfg.nrbx3, k) :
       ctor' = [ctor EXCEPT
                  !.block_bcs = SetBlockSizeAndBoundaries(cfg, ctor.loc, <<w1, w2, w3>>)]
  /\ pc' = "bounded"
  /\ UNCHANGED <<status, nranks, meshvars, timevars, onb, stepvars, iovars>>

NextBC == CallSetBlockSizeAndBoundaries

SpecBC == InitBC /\ [][NextBC]_vars

\* The block lies on the inner (side 0) or outer (side 1) mesh boundary of
\* axis a, whose root grid has nrb blocks and where its index is lx.
\* Below DeepShift the indices of the model are far from the outer boundary.
OnMeshBoundary(side, nrb, k, lx) ==
  IF side = 0 THEN lx = 0
  ELSE k <= MaxRefine /\ lx = nrb * Pow2(k) - 1

----------------------------------------------------------------------------
\* Specification SpecXF: the block exchange of AdaptiveMeshRefinement in an
\* MPI build.  A mesh built by the fresh-start constructor is adapted by
\* calls with arbitrary flags, and the exchange of the last call is kept.

\* The meshes of this specification (one-dimensional, two levels), with the
\* cells of a MeshBlock.
XFMeshes ==
  { [dim |-> 1, nrbx1 |-> 3, nrbx2 |-> 1, nrbx3 |-> 1, root_level |-> 2,
     max_level |-> 3, bcs |-> AllOutflow, multilevel |-> TRUE, face_only |-> FALSE,
     bnx |-> <<4, 1, 1>>],
    [dim |-> 1, nrbx1 |-> 2, nrbx2 |-> 1, nrbx3 |-> 1, root_level |-> 1,
     max_level |-> 2, bcs |-> AllOutflow, multilevel |-> TRUE, face_only |-> FALSE,
     bnx |-> <<6, 1, 1>>] }

InitXF ==
  \E c \in XFMeshes, R \in 1..MaxRanks :
  \E S \in SUBSET CreateRootGrid(c) :
  \E T \in {RefineSet(CreateRootGrid(c), c, S)} :
  \E ll \in {GetMeshBlockList(T, c.dim)} :
  \E nb \in {Cardinality(DOMAIN ll)} :
  \E lb \in {LoadBalancing([g \in 0..(nb - 1) |-> RFromInt(1)], [g \in 0..(nb - 1) |-> -1],
                            [r \in 0..(R - 1) |-> 0], [r \in 0..(R - 1) |-> 0], nb, R)} :
       /\ nb >= R
       /\ cfg = c
       /\ nranks = R
       /\ tree = T
       /\ loclist = ll
       /\ nbtotal = nb
       /\ costlist = [g \in 0..(nb - 1) |-> RFromInt(1)]
       /\ ranklist = lb.rlist
       /\ nslist = lb.slist
       /\ nblist = lb.nlist
       /\ mb = BuildAllLists(ll, lb.slist, lb.nlist, R)
       /\ neighbor = SearchAll(T, c, ll, lb.rlist, lb.slist)
       /\ hist = NoHist
       /\ pc = "constructed"
       /\ status = "ok"
       /\ TimeIdle /\ onb = NoValue /\ StepIdle /\ ctor = NoValue
       /\ resfile = NoValue
       /\ xfer = NoXfer

CallAMRExchange ==
  /\ pc \in {"constructed", "amr"}
  /\ status = "ok"
  /\ \E up \in SUBSET Refinable, dn \in SUBSET Derefinable :
       /\ up \cap dn = {}
       /\ AdaptiveMeshRefinement(up, dn, TRUE)
  /\ pc' = "amr"
  /\ UNCHANGED <<nranks, cfg, timevars, onb, stepvars, ctor, resfile>>

NextXF == CallAMRExchange

SpecXF == InitXF /\ [][NextXF]_vars

\* The last call exchanged blocks.
Exchanged == pc = "amr" /\ xfer.done

\* What oldtonew[o] has to be: the new gid of the block at the old location,
\* of its first child, or of its parent.
InverseOf(o) ==
  LET l    == xfer.oldloc[o]
      at(q) == {n \in DOMAIN xfer.newloc : xfer.newloc[n] = q}
  IN IF at(l) # {} THEN at(l)
     ELSE IF at(ChildSeq(l, cfg.dim)[1]) # {} THEN at(ChildSeq(l, cfg.dim)[1])
     ELSE at(ParentLoc(l))

\* C25 (as claimed): after the leaf enumeration of an AMR step every entry of
\* oldtonew is assigned, and oldtonew[o] is the new gid of the block o itself
\* when o kept its level (so newtoold[oldtonew[o]] = o), of the first child
\* of o when o was refined, of the merged parent when o is any child of a
\* derefined group.
\* Violated: in the branch "derefined" the loop writes the nlbl-1 entries
\* behind a group with the new gid that follows the parent, does not write
\* the entry of that following block, and writes nothing behind the last
\* new block.
C25_OldToNewInverse ==
  Exchanged =>
    \A o \in DOMAIN xfer.oldloc :
      /\ o \in xfer.written
      /\ xfer.oldtonew[o] \in InverseOf(o)
      /\ xfer.oldloc[o] \in Range(xfer.newloc) => xfer.newtoold[xfer.oldtonew[o]] = o

\* What a send and a receive are matched on.
MsgKey(m) == <<m.src, m.dst, m.tag, m.len>>

\* C26 (as claimed): in the block exchange the sends started by the old
\* owners and the receives posted by the new owners correspond one to one on
\* (source rank, destination rank, tag, length), and the tags of the receives
\* of one rank are all different, for any mix of refinement and derefinement.
\* Violated: the destination of a send is oldtonew[n], which is not the new
\* block of n once a group has been collapsed (C25).
C26_SendsMatchReceives ==
  Exchanged =>
    /\ ~xfer.wild
    /\ \A s \in xfer.sends :
         Cardinality({q \in xfer.recvs : MsgKey(q) = MsgKey(s)}) = 1
    /\ \A q \in xfer.recvs :
         Cardinality({s \in xfer.sends : MsgKey(s) = MsgKey(q)}) = 1
    /\ \A q1, q2 \in xfer.recvs : (q1.dst = q2.dst /\ q1.tag = q2.tag) => q1 = q2

\* The new blocks of rank r whose data were on rank r at the same level.
Stays(r) ==
  {n \in xfer.nslist[r]..(xfer.nslist[r] + xfer.nblist[r] - 1) :
     /\ n \in DOMAIN xfer.newloc
     /\ xfer.oldrank[xfer.newtoold[n]] = r
     /\ xfer.oldloc[xfer.newtoold[n]].level = xfer.newloc[n].level}

\* The new block n of rank r is the object that was the old block: same
\* object, same loc, new gid and lid, and it is in the new list.
KeptObject(r, n) ==
  LET k  == n - xfer.nslist[r] + 1
      po == FindMeshBlock(xfer.oldmb[r], xfer.newtoold[n])
      h  == xfer.rebuilt[r].h
  IN /\ po # 0
     /\ k \in DOMAIN xfer.rebuilt[r].from
     /\ xfer.rebuilt[r].from[k] = po
     /\ h.obj[k].gid = n
     /\ h.obj[k].lid = n - xfer.nslist[r]
     /\ h.obj[k].loc = xfer.oldmb[r].obj[po].loc

\* C30 (as claimed): a block that stays on its rank at its level through an
\* AMR step is kept as the same MeshBlock object, re-linked into the new
\* list with a new gid and lid and with its loc unchanged, and it is not
\* destroyed when the remaining old blocks are discarded.
\* Violated: the head of a list that was moved there as a block that had a
\* predecessor keeps the address of the destroyed predecessor in prev (C4);
\* in the next step the move writes through it and leaves pblock on the
\* moved block, which the discard loop then deletes.
C30_SameObjectKept ==
  Exchanged =>
    \A r \in Ranks : \A n \in Stays(r) :
      ~xfer.rebuilt[r].bad /\ KeptObject(r, n)

----------------------------------------------------------------------------
\* Specification SpecDS: the first AdaptiveMeshRefinement call on one rank
\* for a mesh with three levels, built with static refinement down to the
\* second level below the root.

DeepMesh ==
  [dim |-> 1, nrbx1 |-> 2, nrbx2 |-> 1, nrbx3 |-> 1, root_level |-> 1,
   max_level |-> 3, bcs |-> AllOutflow, multilevel |-> TRUE, face_only |-> FALSE,
   bnx |-> <<4, 1, 1>>]

InitDS ==
  \E S1 \in SUBSET CreateRootGrid(DeepMesh) :
  \E T1 \in {RefineSet(CreateRootGrid(DeepMesh), DeepMesh, S1)} :
  \E S2 \in SUBSET {l \in T1 : l.level = DeepMesh.root_level + 1} :
  \E T \in {RefineSet(T1, DeepMesh, S2)} :
  \E ll \in {GetMeshBlockList(T, DeepMesh.dim)} :
  \E nb \in {Cardinality(DOMAIN ll)} :
  \E lb \in {LoadBalancing([g \in 0..(nb - 1) |-> RFromInt(1)], [g \in 0..(nb - 1) |-> -1],
                            [r \in 0..0 |-> 0], [r \in 0..0 |-> 0], nb, 1)} :
       /\ cfg = DeepMesh
       /\ nranks = 1
       /\ tree = T
       /\ loclist = ll
       /\ nbtotal = nb
       /\ costlist = [g \in 0..(nb - 1) |-> RFromInt(1)]
       /\ ranklist = lb.rlist
       /\ nslist = lb.slist
       /\ nblist = lb.nlist
       /\ mb = BuildAllLists(ll, lb.slist, lb.nlist, 1)
       /\ neighbor = SearchAll(T, DeepMesh, ll, lb.rlist, lb.slist)
       /\ hist = NoHist
       /\ pc = "constructed"
       /\ status = "ok"
       /\ TimeIdle /\ onb = NoValue /\ StepIdle /\ ctor = NoValue
       /\ resfile = NoValue
       /\ xfer = NoXfer

CallAMRFirst ==
  /\ pc = "constructed"
  /\ status = "ok"
  /\ \E up \in SUBSET Refinable, dn \in SUBSET Derefinable :
       /\ up \cap dn = {}
       /\ AdaptiveMeshRefinement(up, dn, TRUE)
  /\ pc' = "amr"
  /\ UNCHANGED <<nranks, cfg, timevars, onb, stepvars, ctor, resfile>>

NextDS == CallAMRFirst

SpecDS == InitDS /\ [][NextDS]_vars

\* C27 (as claimed): when several parents are derefined in one AMR step,
\* Derefine is called on them deepest first: the levels along clderef, in the
\* order of the calls, never increase, whatever the order of the gathering.
\* Violated: the end iterator given to std::sort is the address of the last
\* entry, so the last parent gathered is not sorted with the others.
C27_DeepestFirst ==
  (Exchanged /\ Len(xfer.clderef) >= 2) =>
    \A i, j \in 1..Len(xfer.clderef) :
      i < j => xfer.clderef[i].level >= xfer.clderef[j].level

----------------------------------------------------------------------------
\* Specification SpecRG: the index ranges of Step 6, Step 7 and Step 8 for
\* one parent and its 2^dim children, as functions of the dimension, the
\* cells of a MeshBlock, the locations and the ranks.  The parent is on rank
\* 0; each child is on rank 0 or on rank 1.

\* MeshBlock::MeshBlock, "initialize grid indices", with multilevel.
BlockIndices(bnx) ==
  LET cnghost == (NGHOST + 1) \div 2 + 1
  IN [is |-> NGHOST, ie |-> NGHOST + bnx[1] - 1,
      js |-> IF bnx[2] > 1 THEN NGHOST ELSE 0,
      je |-> IF bnx[2] > 1 THEN NGHOST + bnx[2] - 1 ELSE 0,
      ks |-> IF bnx[3] > 1 THEN NGHOST ELSE 0,
      ke |-> IF bnx[3] > 1 THEN NGHOST + bnx[3] - 1 ELSE 0,
      cis |-> cnghost, cie |-> cnghost + bnx[1] \div 2 - 1,
      cjs |-> IF bnx[2] > 1 THEN cnghost ELSE 0,
      cje |-> IF bnx[2] > 1 THEN cnghost + bnx[2] \div 2 - 1 ELSE 0,
      cks |-> IF bnx[3] > 1 THEN cnghost ELSE 0,
      cke |-> IF bnx[3] > 1 THEN cnghost + bnx[3] \div 2 - 1 ELSE 0]

\* Step 6, "c2f": the cells of the old block pb packed for the new block at
\* lloc, <<is, ie>>, <<js, je>>, <<ks, ke>>.
C2FSendRegion(pb, bnx, f2, f3, lloc) ==
  << IF lloc.lx1 % 2 = 0 THEN <<pb.is - 1, pb.is + bnx[1] \div 2>>
     ELSE <<pb.is + bnx[1] \div 2 - 1, pb.ie + 1>>,
     IF lloc.lx2 % 2 = 0 THEN <<pb.js - f2, pb.js + bnx[2] \div 2>>
     ELSE <<pb.js + bnx[2] \div 2 - f2, pb.je + f2>>,
     IF lloc.lx3 % 2 = 0 THEN <<pb.ks - f3, pb.ks + bnx[3] \div 2>>
     ELSE <<pb.ks + bnx[3] \div 2 - f3, pb.ke + f3>> >>

\* Step 7, "coarse to fine on the same node": the cells ci, cj, ck of the old
\* block pob read while i, j, k run over the coarse buffer; oloc is
\* loclist[on], the location the offsets cis, cjs, cks are computed from.
C2FLocalSource(pob, bnx, f2, f3, oloc) ==
  LET cis == ((oloc.lx1 % 2) * bnx[1]) \div 2 - pob.cis + pob.is
      cjs == ((oloc.lx2 % 2) * bnx[2]) \div 2 - pob.cjs + pob.js
      cks == ((oloc.lx3 % 2) * bnx[3]) \div 2 - pob.cks + pob.ks
  IN << <<pob.cis - 1 + cis, pob.cie + 1 + cis>>,
        <<pob.cjs - f2 + cjs, pob.cje + f2 + cjs>>,
        <<pob.cks - f3 + cks, pob.cke + f3 + cks>> >>

\* F2CRecvRange without the test of ox1: the lower half in x1 for both parities.
F2CRecvRange_LowerHalf(pb, bnx, f2, f3, lloc) ==
  << <<pb.is, pb.is + bnx[1] \div 2 - 1>>,
     IF lloc.lx2 % 2 = 0 THEN <<pb.js, pb.js + bnx[2] \div 2 - f2>>
     ELSE <<pb.js + bnx[2] \div 2, pb.je>>,
     IF lloc.lx3 % 2 = 0 THEN <<pb.ks, pb.ks + bnx[3] \div 2 - f3>>
     ELSE <<pb.ks + bnx[3] \div 2, pb.ke>> >>

\* Step 8, "f2c": the cells of the new block pb the buffer of the old block
\* at lloc is unpacked into.
F2CRecvRange(pb, bnx, f2, f3, lloc) ==
  << IF lloc.lx1 % 2 = 0 THEN <<pb.is, pb.is + bnx[1] \div 2 - 1>>
     ELSE <<pb.is + bnx[1] \div 2, pb.ie>>,
     IF lloc.lx2 % 2 = 0 THEN <<pb.js, pb.js + bnx[2] \div 2 - f2>>
     ELSE <<pb.js + bnx[2] \div 2, pb.je>>,
     IF lloc.lx3 % 2 = 0 THEN <<pb.ks, pb.ks + bnx[3] \div 2 - f3>>
     ELSE <<pb.ks + bnx[3] \div 2, pb.ke>> >>

\* Step 7, "fine to coarse", "on the same node - restriction": the cells of
\* the new block (pmb in the source) written from the old block at lloc = loclist[on+ll].
F2CLocalRange(pnb, bnx, f2, f3, lloc) ==
  LET is == pnb.is + ((lloc.lx1 % 2) * bnx[1]) \div 2
      js == pnb.js + ((lloc.lx2 % 2) * bnx[2]) \div 2
      ks == pnb.ks + ((lloc.lx3 % 2) * bnx[3]) \div 2
  IN << <<is, is + bnx[1] \div 2 - 1>>,
        <<js, js + bnx[2] \div 2 - f2>>,
        <<ks, ks + bnx[3] \div 2 - f3>> >>

\* The cells of a MeshBlock: even and at least 4 in the active dimensions.
RGBlockSizes(dim) ==
  IF dim = 1 THEN {<<4, 1, 1>>, <<6, 1, 1>>}
  ELSE IF dim = 2 THEN {<<4, 6, 1>>, <<6, 4, 1>>}
  ELSE {<<4, 6, 8>>, <<8, 4, 6>>}

\* The locations of a parent at level 1: any parity in the active dimensions.
RGParents(dim) ==
  {Loc(1, x1, x2, x3) : x1 \in 0..1,
                        x2 \in IF dim >= 2 THEN 0..1 ELSE {0},
                        x3 \in IF dim >= 3 THEN 0..1 ELSE {0}}

InitRG ==
  /\ pc = "located"
  /\ status = "ok"
  /\ nranks = 2
  /\ \E dim \in 1..3 :
     \E bnx \in RGBlockSizes(dim), p \in RGParents(dim) :
     \E cr \in [1..Pow2(dim) -> 0..1] :
       xfer = [dim |-> dim, bnx |-> bnx, ploc |-> p, crank |-> cr,
               kind |-> "", region |-> <<>>]
  /\ MeshIdle
  /\ TimeIdle /\ onb = NoValue /\ StepIdle /\ ctor = NoValue /\ resfile = NoValue

rgframe == <<status, nranks, meshvars, timevars, onb, stepvars, ctor, resfile>>

\* The old block at ploc is refined: each child on rank 0 is prolongated from
\* the old block in Step 7, each child on rank 1 from the buffer of Step 6.
FillFromCoarse ==
  /\ pc = "located"
  /\ \E pob \in {BlockIndices(xfer.bnx)} :
     \E f2 \in {IF xfer.dim >= 2 THEN 1 ELSE 0}, f3 \in {IF xfer.dim >= 3 THEN 1 ELSE 0} :
     \E newloc \in {ChildSeq(xfer.ploc, xfer.dim)} :
       xfer' = [xfer EXCEPT
                  !.kind = "c2f",
                  !.region = [l \in 1..Len(newloc) |->
                                IF xfer.crank[l] = 0
                                THEN C2FLocalSource(pob, xfer.bnx, f2, f3, xfer.ploc)
                                ELSE C2FSendRegion(pob, xfer.bnx, f2, f3, newloc[l])]]
  /\ pc' = "filled"
  /\ UNCHANGED rgframe

\* The old blocks are the children of ploc and are derefined: the new block
\* is filled from each child on rank 0 in Step 7, from each child on rank 1
\* in Step 8.
FillFromFine ==
  /\ pc = "located"
  /\ \E pnb \in {BlockIndices(xfer.bnx)} :
     \E f2 \in {IF xfer.dim >= 2 THEN 1 ELSE 0}, f3 \in {IF xfer.dim >= 3 THEN 1 ELSE 0} :
     \E loclst \in {ChildSeq(xfer.ploc, xfer.dim)} :
       xfer' = [xfer EXCEPT
                  !.kind = "f2c",
                  !.region = [l \in 1..Len(loclst) |->
                                IF xfer.crank[l] = 0
                                THEN F2CLocalRange(pnb, xfer.bnx, f2, f3, loclst[l])
                                ELSE F2CRecvRange(pnb, xfer.bnx, f2, f3, loclst[l])]]
  /\ pc' = "filled"
  /\ UNCHANGED rgframe

NextRG == FillFromCoarse \/ FillFromFine

SpecRG == InitRG /\ [][NextRG]_vars

\* The half of lo..hi (n cells) selected by parity par in an active
\* dimension, widened by halo cells on both sides; the whole in an inactive one.
HalfOf(lo, n, par, active, halo) ==
  IF active THEN <<lo + par * (n \div 2) - halo, lo + par * (n \div 2) + n \div 2 - 1 + halo>>
  ELSE <<lo, lo>>

\* The octant of a block with the cells bnx that the child at loc covers.
OctantOf(bnx, dim, loc, halo) ==
  LET b == BlockIndices(bnx)
  IN << HalfOf(b.is, bnx[1], loc.lx1 % 2, TRUE, halo),
        HalfOf(b.js, bnx[2], loc.lx2 % 2, dim >= 2, halo),
        HalfOf(b.ks, bnx[3], loc.lx3 % 2, dim >= 3, halo) >>

\* The cells of a region.
CellsOf(rg) == (rg[1][1]..rg[1][2]) \X (rg[2][1]..rg[2][2]) \X (rg[3][1]..rg[3][2])

RGChildren == ChildSeq(xfer.ploc, xfer.dim)

\* C28 (as claimed): for a child refined on the rank of its parent, the
\* region of the parent copied into the coarse buffer is the half, in each
\* active dimension, selected by the parity of the child's own location,
\* with one halo cell on each side: the region the send path packs for the
\* same child.
\* Violated: the offsets are computed from loclist[on], the location of the
\* parent, so all children on the parent's rank read the same octant.
C28_LocalSourceByChildParity ==
  (pc = "filled" /\ xfer.kind = "c2f") =>
    \A l \in 1..Len(RGChildren) :
      xfer.crank[l] = 0 =>
        /\ xfer.region[l] = OctantOf(xfer.bnx, xfer.dim, RGChildren[l], 1)
        /\ xfer.region[l] =
             C2FSendRegion(BlockIndices(xfer.bnx), xfer.bnx,
                           IF xfer.dim >= 2 THEN 1 ELSE 0,
                           IF xfer.dim >= 3 THEN 1 ELSE 0, RGChildren[l])

\* C29: for a new block made by derefinement, the destination ranges of its
\* 2^dim children, restricted on the same rank or received from another, are
\* the octants selected by each child's own parity; they are pairwise
\* disjoint and their union is the interior is..ie x js..je x ks..ke of the
\* new block, in one, two and three dimensions.
C29_OctantsTileInterior ==
  (pc = "filled" /\ xfer.kind = "f2c") =>
    LET b == BlockIndices(xfer.bnx)
    IN /\ \A l \in 1..Len(RGChildren) :
            xfer.region[l] = OctantOf(xfer.bnx, xfer.dim, RGChildren[l], 0)
       /\ \A l, m \in 1..Len(RGChildren) :
            l # m => CellsOf(xfer.region[l]) \cap CellsOf(xfer.region[m]) = {}
       /\ UNION {CellsOf(xfer.region[l]) : l \in 1..Len(RGChildren)} =
            (b.is..b.ie) \X (b.js..b.je) \X (b.ks..b.ke)

\* A three-dimensional block is filled from children of which some are on
\* its rank and some are not.
C29_Witness ==
  /\ pc = "filled" /\ xfer.kind = "f2c" /\ xfer.dim = 3
  /\ \E l, m \in 1..Len(RGChildren) : xfer.crank[l] = 0 /\ xfer.crank[m] = 1

----------------------------------------------------------------------------
\* Specification SpecPD: the calls between Mesh::Initialize and
\* AdaptiveMeshRefinement on one rank, and the statements of an AMR step from
\* Step 8 to its return.  The mesh itself is left out: an AMR step is given
\* by whether a flag was found, the receive requests Step 5 posted (in the
\* order of the loop, which is the order of Step 8), the number of sends
\* Step 6 posted and the number of blocks the rank holds after Step 7.  A
\* request completes at a time of MPI's choosing once it is posted.

MaxRecv   == 2   \* a rank posts 0..MaxRecv receives in a step
MaxSend   == 1   \* and 0..MaxSend sends
MaxPasses == 2   \* passes of the loop of one Initialize call
MaxDepth  == 4   \* frames on the call stack

PDKinds == {"same", "f2c", "c2f"}

PDRecvLists == UNION {[1..n -> PDKinds] : n \in 0..MaxRecv}

\* A frame of the call stack.  For a call of Initialize it counts the passes
\* of the do-while loop, the passes that ran the loop of the problem
\* generator and the loop of the refinement criterion, the calls of
\* AdaptiveMeshRefinement, and records whether the timesteps were recomputed
\* before the return.
PDFrame(fn, rf) ==
  [fn |-> fn, res_flag |-> rf, passes |-> 0, pgen |-> 0, crit |-> 0, amr |-> 0,
   timestep |-> FALSE]

NoFrame == PDFrame("", -1)

Top == xfer.stack[Len(xfer.stack)]

Pop(st) == SubSeq(st, 1, Len(st) - 1)

SetTop(st, f) == [st EXCEPT ![Len(st)] = f]

\* if(res_flag==0) { ... ProblemGenerator(phydro,pfield,pin); ... }
CallsProblemGenerator(rf) == rf = 0

\* Mutant: every call but the one of a restart runs the criterion and the AMR step.
RunsAMR_UnlessRestart(rf, adapt) == rf # 1 /\ adapt

\* if((res_flag==0) && (adaptive==true)) { ... AdaptiveMeshRefinement(pin); ... }
RunsAMR(rf, adapt) == rf = 0 /\ adapt

\* if(res_flag==0 || res_flag==2) { ... NewBlockTimeStep ... NewTimeStep(); }
RecomputesDt(rf) == rf = 0 \/ rf = 2

\* Step 8: MPI_Wait(&(req_recv[k]), ...) stands before the unpacking of a
\* same-level and of a coarse-to-fine buffer, not of a fine-to-coarse one.
WaitsBeforeUnpack(kind) == kind # "f2c"

\* main calls Initialize(0) on a fresh start and Initialize(1) on a restart.
InitPD ==
  /\ pc = "init"
  /\ status = "ok"
  /\ nranks = 2
  /\ \E rf \in 0..1, adapt \in BOOLEAN, nb \in 1..MaxLocal :
       xfer = [stack |-> <<PDFrame("Initialize", rf)>>, last |-> NoFrame,
               adaptive |-> adapt, nblk |-> nb, changed |-> FALSE,
               kinds |-> <<>>, nsend |-> 0, done |-> {}, sdone |-> {}, k |-> 1,
               early |-> {}, latefree |-> {}, recvfreed |-> FALSE,
               member |-> "old", oldfreed |-> FALSE, wired |-> 0]
  /\ MeshIdle
  /\ TimeIdle /\ onb = NoValue /\ StepIdle /\ ctor = NoValue /\ resfile = NoValue

pdframe == <<status, nranks, meshvars, timevars, onb, stepvars, ctor, resfile>>

\* One pass of the do-while loop of Initialize up to the call of
\* AdaptiveMeshRefinement, or to the end of the loop when the call is not made
\* (iflag is still true).
InitializeLoopPass ==
  /\ pc = "init"
  /\ Top.passes < MaxPasses
  /\ \E f \in {Top} :
     \E g \in {[f EXCEPT !.passes = @ + 1,
                         !.pgen = @ + (IF CallsProblemGenerator(f.res_flag)
                                       THEN 1 ELSE 0),
                         !.crit = @ + (IF RunsAMR(f.res_flag, xfer.adaptive)
                                       THEN 1 ELSE 0),
                         !.amr = @ + (IF RunsAMR(f.res_flag, xfer.adaptive)
                                      THEN 1 ELSE 0)]} :
       IF RunsAMR(f.res_flag, xfer.adaptive)
       THEN /\ Len(xfer.stack) < MaxDepth
            /\ xfer' = [xfer EXCEPT !.stack = Append(SetTop(@, g), PDFrame("AMR", -1))]
            /\ pc' = "amr"
       ELSE /\ xfer' = [xfer EXCEPT !.stack = SetTop(@, g)]
            /\ pc' = "init_exit"
  /\ UNCHANGED pdframe

\* The end of Initialize: the timesteps, and the return to the caller (main,
\* or AdaptiveMeshRefinement, which returns at once).
InitializeExit ==
  /\ pc = "init_exit"
  /\ xfer' = [xfer EXCEPT !.last = [Top EXCEPT !.timestep = RecomputesDt(Top.res_flag)],
                          !.stack = Pop(@)]
  /\ pc' = IF Len(xfer.stack) = 1 THEN "main" ELSE "amr_ret"
  /\ UNCHANGED pdframe

\* The main loop: with adaptive == true an AMR step follows a time step.
MainLoopAMR ==
  /\ pc = "main"
  /\ xfer.adaptive
  /\ xfer' = [xfer EXCEPT !.stack = <<PDFrame("AMR", -1)>>]
  /\ pc' = "amr"
  /\ UNCHANGED pdframe

\* Steps 1-7 of AdaptiveMeshRefinement: without a flag the call returns;
\* with one the tree, the new lists and the blocks are built and the
\* requests are posted.
AMRToStep8 ==
  /\ pc = "amr"
  /\ \E flagged \in BOOLEAN :
       IF ~flagged
       THEN /\ xfer' = [xfer EXCEPT !.changed = FALSE]
            /\ pc' = "amr_ret"
       ELSE /\ \E ks \in PDRecvLists, ns \in 0..MaxSend, nb \in 1..MaxLocal :
                 xfer' = [xfer EXCEPT !.changed = TRUE, !.kinds = ks, !.nsend = ns,
                                      !.nblk = nb, !.done = {}, !.sdone = {},
                                      !.k = 1, !.early = {}, !.latefree = {},
                                      !.recvfreed = FALSE, !.member = "old",
                                      !.oldfreed = FALSE, !.wired = 0]
            /\ pc' = "step8"
  /\ UNCHANGED pdframe

\* The step has posted requests that MPI may complete.
RequestsLive ==
  \/ pc \in {"step8", "waitall", "install", "rewire"}
  \/ pc \in {"init", "init_exit"} /\ Top.res_flag = 2

\* A posted receive completes.
RecvCompletes ==
  /\ RequestsLive
  /\ \E j \in (1..Len(xfer.kinds)) \ xfer.done :
       xfer' = [xfer EXCEPT !.done = @ \cup {j}]
  /\ UNCHANGED <<pc, pdframe>>

\* A posted send completes.
SendCompletes ==
  /\ RequestsLive
  /\ \E j \in (1..xfer.nsend) \ xfer.sdone :
       xfer' = [xfer EXCEPT !.sdone = @ \cup {j}]
  /\ UNCHANGED <<pc, pdframe>>

\* Step 8, one buffer: the wait where the code has one, the unpacking, k++.
UnpackNext ==
  /\ pc = "step8"
  /\ xfer.k <= Len(xfer.kinds)
  /\ WaitsBeforeUnpack(xfer.kinds[xfer.k]) => xfer.k \in xfer.done
  /\ xfer' = [xfer EXCEPT !.early = IF xfer.k \in xfer.done THEN @ ELSE @ \cup {xfer.k},
                          !.k = @ + 1]
  /\ UNCHANGED <<pc, pdframe>>

\* "deallocate arrays": delete [] loclist; delete [] ranklist;
\* delete [] costlist; (and newtoold, oldtonew).
DeallocateLists ==
  /\ pc = "step8"
  /\ xfer.k > Len(xfer.kinds)
  /\ xfer' = [xfer EXCEPT !.oldfreed = TRUE]
  /\ pc' = "waitall"
  /\ UNCHANGED pdframe

\* MPI_Waitall on the sends, then the send buffers and the receive buffers
\* are deleted.
FreeBuffers ==
  /\ pc = "waitall"
  /\ xfer.sdone = 1..xfer.nsend
  /\ xfer' = [xfer EXCEPT !.latefree = (1..Len(xfer.kinds)) \ xfer.done,
                          !.recvfreed = Len(xfer.kinds) # 0]
  /\ pc' = "install"
  /\ UNCHANGED pdframe

\* "update the lists": loclist = newloc; ranklist = newrank; costlist = newcost;
UpdateLists ==
  /\ pc = "install"
  /\ xfer' = [xfer EXCEPT !.member = "new"]
  /\ pc' = "rewire"
  /\ UNCHANGED pdframe

\* pmb->SearchAndSetNeighbors(tree, ranklist, nslist) on the next block.
RewireBlock ==
  /\ pc = "rewire"
  /\ xfer.wired < xfer.nblk
  /\ xfer' = [xfer EXCEPT !.wired = @ + 1]
  /\ UNCHANGED <<pc, pdframe>>

\* Initialize(2, pin);
CallInitialize ==
  /\ pc = "rewire"
  /\ xfer.wired = xfer.nblk
  /\ Len(xfer.stack) < MaxDepth
  /\ xfer' = [xfer EXCEPT !.stack = Append(@, PDFrame("Initialize", 2))]
  /\ pc' = "init"
  /\ UNCHANGED pdframe

\* AdaptiveMeshRefinement returns: to main, or into the loop of Initialize
\* (if(nbtotal==onb) iflag=true;), where a step that changed the mesh may or
\* may not have changed the number of blocks.  The requests and buffers of
\* the step are gone with its locals; the lists it installed are the lists
\* the next step starts from.
AMRReturns ==
  /\ pc = "amr_ret"
  /\ xfer' = [xfer EXCEPT !.stack = Pop(@), !.kinds = <<>>, !.nsend = 0,
                          !.done = {}, !.sdone = {}, !.k = 1, !.early = {},
                          !.latefree = {}, !.recvfreed = FALSE, !.member = "old",
                          !.oldfreed = FALSE, !.wired = 0]
  /\ IF Len(xfer.stack) = 1
     THEN pc' = "main"
     ELSE \E same \in {TRUE, ~xfer.changed} :
            pc' = IF same THEN "init_exit" ELSE "init"
  /\ UNCHANGED pdframe

NextPD ==
  \/ InitializeLoopPass
  \/ InitializeExit
  \/ MainLoopAMR
  \/ AMRToStep8
  \/ RecvCompletes
  \/ SendCompletes
  \/ UnpackNext
  \/ DeallocateLists
  \/ FreeBuffers
  \/ UpdateLists
  \/ RewireBlock
  \/ CallInitialize
  \/ AMRReturns

SpecPD == InitPD /\ [][NextPD]_vars

\* The rank keeps running: a step of the program is taken when one is
\* possible (a call of MPI_Wait or MPI_Waitall returns once the requests it
\* waits for have completed).
SpecPDFair == SpecPD /\ WF_vars(NextPD)

\* C31 (as claimed): in an AMR step the old loclist, ranklist and costlist
\* are freed only after the new lists are the members and every local block
\* has re-run SearchAndSetNeighbors; no member points to a freed array.
\* Violated: the three arrays are deleted first, and the members keep their
\* addresses during MPI_Waitall and the deletion of the buffers.
C31_FreedAfterInstalled ==
  xfer.oldfreed => (xfer.member = "new" /\ xfer.wired = xfer.nblk)

\* The block with the gid of record q, on the rank the record names, holds
\* the lid of the record.
HeldAs(q) ==
  \E os \in {ListObjs(mb[q.rank])} :
    \E j \in 1..Len(os) : os[j].gid = q.gid /\ os[j].lid = q.lid

\* C32 (as claimed): when an AMR step that changed something returns, every
\* neighbor record of every block names the rank ranklist[gid] and the lid
\* its block holds on that rank.  Violated under SpecAMR: a step that leaves
\* fewer blocks than ranks returns with nslist entries of before the step, and
\* the records computed from them name lids no block holds.
C32_NeighborsFresh ==
  AMRReturned =>
    \A g \in DOMAIN neighbor : \A k \in 1..Len(neighbor[g]) :
      /\ neighbor[g][k].rank = ranklist[neighbor[g][k].gid]
      /\ HeldAs(neighbor[g][k])

\* C38 (as claimed): a receive buffer is unpacked only after its request has
\* completed, and freed only after its request has completed, on the
\* same-level, the coarse-to-fine and the fine-to-coarse path.  Violated
\* under SpecPD: the fine-to-coarse branch of Step 8 has no MPI_Wait.
C38_UnpackAfterCompletion ==
  /\ xfer.early = {}
  /\ xfer.latefree = {}

\* The frames of the stack that are calls of AdaptiveMeshRefinement.
AMRFrames == {i \in 1..Len(xfer.stack) : xfer.stack[i].fn = "AMR"}

\* Initialize(2) is running: it is the top frame, called by an AMR step.
InInitialize2 == pc \in {"init", "init_exit"} /\ Top.res_flag = 2

----------------------------------------------------------------------------
\* Specification SpecCP: one AdaptiveMeshRefinement call on a mesh whose
\* blocks have unequal costs, as after a restart (the restart constructor
\* reads costlist from the file and balances with it).

\* The costs of a block.
CPCosts == {RFromInt(1), RFromInt(2), RRatio(1, 10)}

\* The cost lists of a mesh of nb blocks: every list for a small mesh, two
\* patterns for a large one.
CPCostLists(nb) ==
  IF nb <= MaxBlocks
  THEN [0..(nb - 1) -> CPCosts]
  ELSE {[g \in 0..(nb - 1) |-> RFromInt(1 + (g % 2))],
        [g \in 0..(nb - 1) |-> IF g % 3 = 0 THEN RRatio(1, 10) ELSE RFromInt(g % 3)]}

CPMeshes ==
  { [dim |-> 1, nrbx1 |-> 2, nrbx2 |-> 1, nrbx3 |-> 1, root_level |-> 1,
     max_level |-> 2, bcs |-> AllOutflow, multilevel |-> TRUE, face_only |-> FALSE,
     bnx |-> <<4, 1, 1>>],
    [dim |-> 2, nrbx1 |-> 2, nrbx2 |-> 1, nrbx3 |-> 1, root_level |-> 1,
     max_level |-> 2, bcs |-> AllOutflow, multilevel |-> TRUE, face_only |-> FALSE,
     bnx |-> <<4, 4, 1>>] }

InitCP ==
  \E c \in CPMeshes, R \in 1..2 :
  \E S \in {X \in SUBSET CreateRootGrid(c) : c.dim = 1 \/ X = CreateRootGrid(c)} :
  \E T \in {RefineSet(CreateRootGrid(c), c, S)} :
  \E ll \in {GetMeshBlockList(T, c.dim)} :
  \E nb \in {Cardinality(DOMAIN ll)} :
  \E cl \in CPCostLists(nb) :
  \E lb \in {LoadBalancing(cl, [g \in 0..(nb - 1) |-> -1],
                            [r \in 0..(R - 1) |-> 0], [r \in 0..(R - 1) |-> 0], nb, R)} :
       /\ nb >= R
       /\ ~lb.thrown
       /\ \A r \in 0..(R - 1) : CountRank(lb.rlist, r) > 0
       /\ cfg = c
       /\ nranks = R
       /\ tree = T
       /\ loclist = ll
       /\ nbtotal = nb
       /\ costlist = cl
       /\ ranklist = lb.rlist
       /\ nslist = lb.slist
       /\ nblist = lb.nlist
       /\ mb = BuildAllLists(ll, lb.slist, lb.nlist, R)
       /\ neighbor = SearchAll(T, c, ll, lb.rlist, lb.slist)
       /\ hist = NoHist
       /\ pc = "constructed"
       /\ status = "ok"
       /\ TimeIdle /\ onb = NoValue /\ StepIdle /\ ctor = NoValue
       /\ resfile = NoValue
       /\ xfer = NoXfer

\* The first AdaptiveMeshRefinement call after the constructor, traced.
CallAMROnCosts ==
  /\ pc = "constructed"
  /\ status = "ok"
  /\ \E up \in SUBSET Refinable, dn \in SUBSET Derefinable :
       /\ up \cap dn = {}
       /\ AdaptiveMeshRefinement(up, dn, TRUE)
  /\ pc' = "amr"
  /\ UNCHANGED <<nranks, cfg, timevars, onb, stepvars, ctor, resfile>>

NextCP == CallAMROnCosts

SpecCP == InitCP /\ [][NextCP]_vars

\* The step exchanged blocks and installed its lists.
Installed == pc = "amr" /\ xfer.done /\ status \in {"ok", "stale"}

\* acost = 0.0; acost += c[pg+l] for l = 0 .. nlbl-1; acost/nlbl.
RECURSIVE MeanFrom(_, _, _, _, _)
MeanFrom(c, pg, nlbl, l, acost) ==
  IF l = nlbl THEN RDivInt(acost, nlbl)
  ELSE MeanFrom(c, pg, nlbl, l + 1, RAdd(acost, c[pg + l]))

\* C34: after a step that changed the mesh the cost of each new block n,
\* with pg = newtoold[n], is the old cost of pg when n is at the level of pg
\* or finer, and the mean of the old costs of pg .. pg+2^dim-1 when n is
\* coarser; the new ranklist, nslist and nblist are the balance of these costs.
C34_CostPropagation ==
  Installed =>
    /\ \A n \in DOMAIN loclist :
         \E pg \in {xfer.newtoold[n]} :
           costlist[n] = IF loclist[n].level >= xfer.oldloc[pg].level
                         THEN xfer.oldcost[pg]
                         ELSE MeanFrom(xfer.oldcost, pg, xfer.nlbl, 0, RZero)
    /\ \E lb \in {LoadBalancing(costlist, [g \in 0..(nbtotal - 1) |-> -1],
                                xfer.onslist, xfer.onblist, nbtotal, nranks)} :
         /\ ranklist = lb.rlist
         /\ nslist = lb.slist
         /\ nblist = lb.nlist

\* Witness of C34: a step on two ranks that derefined a sibling group of
\* unequal costs and kept or refined a block beside it.
C34_Witness ==
  /\ Installed
  /\ nranks = 2
  /\ \E n \in DOMAIN loclist :
       \E pg \in {xfer.newtoold[n]} :
         /\ loclist[n].level < xfer.oldloc[pg].level
         /\ xfer.oldcost[pg] # xfer.oldcost[pg + 1]
         /\ costlist[n] # xfer.oldcost[pg]
  /\ \E n \in DOMAIN loclist :
       loclist[n].level >= xfer.oldloc[xfer.newtoold[n]].level

----------------------------------------------------------------------------
\* Edge and corner records (SpecNB).

\* The edge and corner directions the search visits on this mesh.
EdgeCornerOffs ==
  IF cfg.face_only THEN {}
  ELSE {o \in Dirs(cfg.dim) : Cardinality({i \in 1..3 : o[i] # 0}) >= 2}

\* The position of the block inside its parent, 2*(lx&1)-1, equals the
\* direction o in each axis o points along.
InCornerOf(loc, o) ==
  /\ o[1] # 0 => 2 * (loc.lx1 % 2) - 1 = o[1]
  /\ o[2] # 0 => 2 * (loc.lx2 % 2) - 1 = o[2]
  /\ o[3] # 0 => 2 * (loc.lx3 % 2) - 1 = o[3]

\* The number of buffer ids the directions visited before o take.
RECURSIVE SlotsBefore(_, _, _)
SlotsBefore(vs, o, k) ==
  IF k > Len(vs) \/ vs[k].o = o THEN 0
  ELSE vs[k].slots + SlotsBefore(vs, o, k + 1)

EdgeCornerRule(g, o) ==
  LET loc == loclist[g]
      nbn == FindNeighbor(tree, cfg, loc, o, cfg.bcs)
      rs  == RecsAt(g, o)
  IN (nbn # NULL /\ nbn.flag) =>
       /\ Len(rs) = IF nbn.loc.level >= loc.level \/ InCornerOf(loc, o) THEN 1 ELSE 0
       /\ \A i \in 1..Len(rs) :
            /\ loclist[rs[i].gid] = nbn.loc
            /\ rs[i].type = IF Cardinality({a \in 1..3 : o[a] # 0}) = 2
                            THEN "edge" ELSE "corner"

\* C35: for an edge or corner direction whose neighbor is a leaf that is not
\* finer, the block holds a record if and only if the neighbor is not coarser
\* or the block sits in the corner of its parent the direction points to; the
\* buffer id of every record is the number of slots of the directions before
\* it (plus its fine index), whether or not records were emitted for them;
\* every face direction with a neighbor has a record.
C35_EdgeCornerDedup ==
  Searched =>
    \A g \in DOMAIN neighbor :
      /\ \A o \in EdgeCornerOffs : EdgeCornerRule(g, o)
      /\ \A k \in 1..Len(neighbor[g]) :
           neighbor[g][k].bufid =
             SlotsBefore(Visits(cfg), RecOff(neighbor[g][k]), 1)
               + neighbor[g][k].fi1 + Nf1(cfg) * neighbor[g][k].fi2
      /\ \A o \in FaceOffs :
           FindNeighbor(tree, cfg, loclist[g], o, cfg.bcs) # NULL =>
             Len(RecsAt(g, o)) >= 1

\* Witness of C35: a 3-D block next to coarser leaves that holds an edge
\* record kept by its position, lacks the record of another edge and of a
\* corner, and holds a record with a larger buffer id than a direction it
\* skipped.
C35_Witness ==
  /\ Searched
  /\ cfg.dim = 3
  /\ \E g \in DOMAIN neighbor :
       \E o1, o2, o3 \in EdgeCornerOffs :
         \E n1 \in {FindNeighbor(tree, cfg, loclist[g], o1, cfg.bcs)},
            n2 \in {FindNeighbor(tree, cfg, loclist[g], o2, cfg.bcs)},
            n3 \in {FindNeighbor(tree, cfg, loclist[g], o3, cfg.bcs)} :
           /\ n1 # NULL /\ n2 # NULL /\ n3 # NULL
           /\ n1.flag /\ n2.flag /\ n3.flag
           /\ n1.loc.level < loclist[g].level /\ Len(RecsAt(g, o1)) = 1
           /\ Cardinality({a \in 1..3 : o2[a] # 0}) = 2
           /\ n2.loc.level < loclist[g].level /\ Len(RecsAt(g, o2)) = 0
           /\ Cardinality({a \in 1..3 : o3[a] # 0}) = 3
           /\ n3.loc.level < loclist[g].level /\ Len(RecsAt(g, o3)) = 0
           /\ \E k \in 1..Len(neighbor[g]) :
                neighbor[g][k].bufid > SlotsBefore(Visits(cfg), o2, 1)

----------------------------------------------------------------------------
\* Specification SpecMT: Mesh::MeshTest on rank 0 of a mesh test
\* (test_flag > 0), called by a constructor after LoadBalancing.  The restart
\* constructor has read the costs from the file.  MeshTest prints; the
\* values it prints are kept in ctor.

MTMeshes ==
  { Mesh1(1, 1, 1, 1, 0, TRUE, AllOutflow, FALSE),
    Mesh1(1, 2, 1, 1, 1, TRUE, AllOutflow, FALSE),
    Mesh1(1, 3, 1, 1, 2, TRUE, AllOutflow, FALSE),
    Mesh1(2, 1, 1, 1, 0, TRUE, AllOutflow, FALSE) }

\* std::max(x, y): y only if x < y.
RMax(x, y) == IF RGt(y, x) THEN y ELSE x

\* The loop over j for the level i: a block of level i adds costlist[i] to
\* the statistics.  A read beyond the list yields the value wild.
RECURSIVE MeshTestLevel(_, _, _, _, _, _, _)
MeshTestLevel(clist, ll, nb, i, j, a, wild) ==
  IF j >= nb THEN a
  ELSE IF ll[j].level # i THEN MeshTestLevel(clist, ll, nb, i, j + 1, a, wild)
  ELSE CHOOSE r \in
         {MeshTestLevel(clist, ll, nb, i, j + 1,
                        [mincost |-> RMin(a.mincost, c),
                         maxcost |-> RMax(a.maxcost, c),
                         totalcost |-> RAdd(a.totalcost, c),
                         oob |-> a.oob \/ i \notin 0..(nb - 1)], wild) :
            c \in {IF i \in 0..(nb - 1) THEN clist[i] ELSE wild}} : TRUE

\* for(i=root_level;i<=max_level;i++) for(j=0;j<nbtotal;j++) ...
RECURSIVE MeshTestLoop(_, _, _, _, _, _, _)
MeshTestLoop(clist, ll, nb, i, maxl, a, wild) ==
  IF i > maxl THEN a
  ELSE CHOOSE r \in
         {MeshTestLoop(clist, ll, nb, i + 1, maxl, b, wild) :
            b \in {MeshTestLevel(clist, ll, nb, i, 0, a, wild)}} : TRUE

\* Real mycost=0, mincost=FLT_MAX, maxcost=0.0, totalcost=0.0; ... the loops.
MeshTest(clist, ll, nb, c, wild) ==
  MeshTestLoop(clist, ll, nb, c.root_level, c.max_level,
               [mincost |-> FltMax, maxcost |-> RZero, totalcost |-> RZero,
                oob |-> FALSE], wild)

InitMT ==
  \E c \in MTMeshes :
  \E T \in {U \in RefinedTrees(c, MaxRefine) : Cardinality(U) <= MaxBlocks} :
  \E ll \in {GetMeshBlockList(T, c.dim)} :
  \E nb \in {Cardinality(DOMAIN ll)} :
  \E cl \in CPCostLists(nb) :
  \E lb \in {LoadBalancing(cl, [g \in 0..(nb - 1) |-> -1],
                            [r \in 0..0 |-> 0], [r \in 0..0 |-> 0], nb, 1)} :
       /\ cfg = c
       /\ nranks = 1
       /\ tree = T
       /\ loclist = ll
       /\ nbtotal = nb
       /\ costlist = cl
       /\ ranklist = lb.rlist
       /\ nslist = lb.slist
       /\ nblist = lb.nlist
       /\ mb = NoValue /\ neighbor = NoValue /\ hist = NoValue
       /\ pc = "balanced"
       /\ status = "ok"
       /\ ctor = [kind |-> "restart", test_flag |-> 1, tested |-> FALSE,
                  mincost |-> FltMax, maxcost |-> RZero, totalcost |-> RZero,
                  oob |-> FALSE]
       /\ TimeIdle /\ onb = NoValue /\ StepIdle /\ IoIdle

\* if(test_flag>0) { if(Globals::my_rank==0) MeshTest(dim); ... return; }
CallMeshTest ==
  /\ pc = "balanced" /\ status = "ok"
  /\ ctor.test_flag > 0
  /\ \E wild \in {RZero, RFromInt(2)} :
     \E st \in {MeshTest(costlist, loclist, nbtotal, cfg, wild)} :
       ctor' = [ctor EXCEPT !.tested = TRUE, !.mincost = st.mincost,
                            !.maxcost = st.maxcost, !.totalcost = st.totalcost,
                            !.oob = st.oob]
  /\ pc' = "tested"
  /\ UNCHANGED <<status, nranks, meshvars, timevars, onb, stepvars, iovars>>

NextMT == CallMeshTest

SpecMT == InitMT /\ [][NextMT]_vars

\* The smallest and the largest entry of c[0..n-1].
RECURSIVE MinOver(_, _)
MinOver(c, n) == IF n = 1 THEN c[0] ELSE RMin(MinOver(c, n - 1), c[n - 1])

RECURSIVE MaxOver(_, _)
MaxOver(c, n) == IF n = 1 THEN c[0] ELSE RMax(MaxOver(c, n - 1), c[n - 1])

\* C36 (as claimed): the minimum, maximum and total cost MeshTest reports
\* are the minimum, the maximum and the sum of costlist[j] over the blocks
\* j = 0 .. nbtotal-1, and no index outside 0 .. nbtotal-1 is read.
\* Violated: the statistics are taken from costlist[i] with i the level of
\* the block.
C36_MeshTestCosts ==
  pc = "tested" =>
    /\ ctor.mincost = MinOver(costlist, nbtotal)
    /\ ctor.maxcost = MaxOver(costlist, nbtotal)
    /\ ctor.totalcost = SumTo(costlist, nbtotal)
    /\ ~ctor.oob

----------------------------------------------------------------------------
\* Specification SpecPK: what Step 6 packs into a buffer and what Step 8
\* unpacks from it, for one block sent to another rank on each of the three
\* paths, with and without magnetic fields (MAGNETIC_FIELDS_ENABLED).  A
\* range is <<is, ie>>, <<js, je>>, <<ks, ke>>; a message is the ranges of u
\* and, with magnetic fields, of x1f, x2f and x3f in the order packed.

PKBlockSizes(dim) ==
  RGBlockSizes(dim) \cup {IF dim = 1 THEN <<8, 1, 1>>
                          ELSE IF dim = 2 THEN <<4, 4, 1>> ELSE <<4, 4, 4>>}

\* Step 4 with MAGNETIC_FIELDS_ENABLED: the reals added to bssame, bsf2c, bsc2f.
FieldBufferSize(kind, bnx, f2, f3) ==
  IF kind = "same"
  THEN (bnx[1] + 1) * bnx[2] * bnx[3] + bnx[1] * (bnx[2] + f2) * bnx[3]
         + bnx[1] * bnx[2] * (bnx[3] + f3)
  ELSE IF kind = "f2c"
  THEN (bnx[1] \div 2 + 1) * ((bnx[2] + 1) \div 2) * ((bnx[3] + 1) \div 2)
         + (bnx[1] \div 2) * ((bnx[2] + 1) \div 2 + f2) * ((bnx[3] + 1) \div 2)
         + (bnx[1] \div 2) * ((bnx[2] + 1) \div 2) * ((bnx[3] + 1) \div 2 + f3)
  ELSE (bnx[1] \div 2 + 1 + 2) * ((bnx[2] + 1) \div 2 + 2 * f2)
           * ((bnx[3] + 1) \div 2 + 2 * f3)
         + (bnx[1] \div 2 + 2) * ((bnx[2] + 1) \div 2 + f2 + 2 * f2)
           * ((bnx[3] + 1) \div 2 + 2 * f3)
         + (bnx[1] \div 2 + 2) * ((bnx[2] + 1) \div 2 + 2 * f2)
           * ((bnx[3] + 1) \div 2 + f3 + 2 * f3)

\* The range rg with its upper ends moved by d1, d2, d3.
Widen(rg, d1, d2, d3) ==
  << <<rg[1][1], rg[1][2] + d1>>, <<rg[2][1], rg[2][2] + d2>>,
     <<rg[3][1], rg[3][2] + d3>> >>

\* u over rg, then each face field over the range the call gives it.
Message(rg, mhd, x1f, x2f, x3f) ==
  IF mhd THEN <<rg, x1f, x2f, x3f>> ELSE <<rg>>

\* Step 6 and Step 8, "same": both sides pass is, ie+1, js, je, ks, ke for
\* each of x1f, x2f and x3f.
SameRanges(pb, mhd) ==
  CHOOSE m \in
    {Message(rg, mhd, Widen(rg, 1, 0, 0), Widen(rg, 1, 0, 0), Widen(rg, 1, 0, 0)) :
       rg \in {<< <<pb.is, pb.ie>>, <<pb.js, pb.je>>, <<pb.ks, pb.ke>> >>}} : TRUE

\* Step 6, "f2c": the restricted block, cis..cie, cjs..cje, cks..cke.
F2CPackRanges(pb, f2, f3, mhd) ==
  CHOOSE m \in
    {Message(rg, mhd, Widen(rg, 1, 0, 0), Widen(rg, 0, f2, 0), Widen(rg, 0, 0, f3)) :
       rg \in {<< <<pb.cis, pb.cie>>, <<pb.cjs, pb.cje>>, <<pb.cks, pb.cke>> >>}} : TRUE

\* Step 8, "f2c": the octant of the new block, ie+1 for each face field.
F2CUnpackRanges(pb, bnx, f2, f3, lloc, mhd) ==
  CHOOSE m \in
    {Message(rg, mhd, Widen(rg, 1, 0, 0), Widen(rg, 1, 0, 0), Widen(rg, 1, 0, 0)) :
       rg \in {F2CRecvRange(pb, bnx, f2, f3, lloc)}} : TRUE

\* Step 6, "c2f": the octant of the old block with its halo.
C2FPackRanges(pb, bnx, f2, f3, lloc, mhd) ==
  CHOOSE m \in
    {Message(rg, mhd, Widen(rg, 1, 0, 0), Widen(rg, 0, f2, 0), Widen(rg, 0, 0, f3)) :
       rg \in {C2FSendRegion(pb, bnx, f2, f3, lloc)}} : TRUE

\* Step 8, "c2f": the coarse buffer of the new block, cis-1..cie+1 and so on.
C2FUnpackRanges(pb, f2, f3, mhd) ==
  CHOOSE m \in
    {Message(rg, mhd, Widen(rg, 1, 0, 0), Widen(rg, 0, f2, 0), Widen(rg, 0, 0, f3)) :
       rg \in {<< <<pb.cis - 1, pb.cie + 1>>, <<pb.cjs - f2, pb.cje + f2>>,
                  <<pb.cks - f3, pb.cke + f3>> >>}} : TRUE

InitPK ==
  /\ pc = "posted"
  /\ status = "ok"
  /\ nranks = 2
  /\ \E dim \in 1..3, mhd \in BOOLEAN :
     \E bnx \in PKBlockSizes(dim), l \in RGParents(dim) :
       xfer = [dim |-> dim, bnx |-> bnx, mhd |-> mhd, lloc |-> l, kind |-> "",
               packed |-> <<>>, unpacked |-> <<>>, size |-> 0]
  /\ MeshIdle
  /\ TimeIdle /\ onb = NoValue /\ StepIdle /\ ctor = NoValue /\ resfile = NoValue

\* One block goes to another rank on the path kind: the sender's Step 6 and
\* the receiver's Step 8 for it.  lloc is the location whose parities select
\* the octant (the new block on "c2f", the old one on "f2c").
ExchangeOn(kind) ==
  /\ pc = "posted"
  /\ \E pb \in {BlockIndices(xfer.bnx)} :
     \E f2 \in {IF xfer.dim >= 2 THEN 1 ELSE 0}, f3 \in {IF xfer.dim >= 3 THEN 1 ELSE 0} :
       xfer' = [xfer EXCEPT
                  !.kind = kind,
                  !.size = BufferSize(kind, xfer.bnx, f2, f3)
                           + (IF xfer.mhd THEN FieldBufferSize(kind, xfer.bnx, f2, f3)
                              ELSE 0),
                  !.packed = IF kind = "same" THEN SameRanges(pb, xfer.mhd)
                             ELSE IF kind = "f2c" THEN F2CPackRanges(pb, f2, f3, xfer.mhd)
                             ELSE C2FPackRanges(pb, xfer.bnx, f2, f3, xfer.lloc, xfer.mhd),
                  !.unpacked = IF kind = "same" THEN SameRanges(pb, xfer.mhd)
                               ELSE IF kind = "f2c"
                               THEN F2CUnpackRanges(pb, xfer.bnx, f2, f3, xfer.lloc, xfer.mhd)
                               ELSE C2FUnpackRanges(pb, f2, f3, xfer.mhd)]
  /\ pc' = "exchanged"
  /\ UNCHANGED <<status, nranks, meshvars, timevars, onb, stepvars, ctor, resfile>>

ExchangeSame == ExchangeOn("same")

ExchangeF2C == ExchangeOn("f2c")

ExchangeC2F == ExchangeOn("c2f")

NextPK == ExchangeSame \/ ExchangeF2C \/ ExchangeC2F

SpecPK == InitPK /\ [][NextPK]_vars

\* The cells of a range along each axis, and their number.
RangeExtents(rg) == [a \in 1..3 |-> rg[a][2] - rg[a][1] + 1]

CellCount(rg) == RangeExtents(rg)[1] * RangeExtents(rg)[2] * RangeExtents(rg)[3]

\* The reals of a message: NHYDRO per cell of u, one per face of each field.
RECURSIVE FieldReals(_, _)
FieldReals(m, k) == IF k > Len(m) THEN 0 ELSE CellCount(m[k]) + FieldReals(m, k + 1)

RealsOf(m) == NHYDRO * CellCount(m[1]) + FieldReals(m, 2)

\* C37 (as claimed): on each cross-rank path, in 1-D, 2-D and 3-D, with and
\* without magnetic fields, the sender packs as many reals as the receiver
\* unpacks, both use ranges of the same extents for each of u, x1f, x2f and
\* x3f, and neither count exceeds the length of the buffer.  Violated with
\* magnetic fields on the same-level and the fine-to-coarse path.
C37_PackMatchesUnpack ==
  pc = "exchanged" =>
    /\ RealsOf(xfer.packed) = RealsOf(xfer.unpacked)
    /\ \A k \in 1..Len(xfer.packed) :
         RangeExtents(xfer.packed[k]) = RangeExtents(xfer.unpacked[k])
    /\ RealsOf(xfer.packed) <= xfer.size
    /\ RealsOf(xfer.unpacked) <= xfer.size

----------------------------------------------------------------------------
\* The sibling scan and the early return, checked on the traced calls of SpecCP.

\* The call was made and xfer holds its record.
Called == pc = "amr"

\* C39 (as claimed): the sibling scan reads lderef only at indices below
\* tnderef, whatever the list holds.  Violated when an entry of even parity
\* is among the last nlbl-1 entries of a list longer than nlbl.
C39_ScanInBounds ==
  Called => \A r \in xfer.scanned : r < xfer.tnderef

\* C40: a call that finds no refine and no derefine flag on any rank leaves
\* the tree, nbtotal, loclist, ranklist, costlist, nslist, nblist, the block
\* lists of all ranks (gid, lid and data of every block), the neighbour
\* records and dt as they were, and does not reach the Initialize call.
C40_NoFlagsNoChange ==
  [][(pc = "constructed" /\ pc' = "amr" /\ xfer'.tnref = 0 /\ xfer'.tnderef = 0)
       => /\ UNCHANGED <<tree, nbtotal, loclist, ranklist, costlist, nslist, nblist,
                         mb, neighbor, status>>
          /\ UNCHANGED timevars
          /\ ~xfer'.done /\ ~xfer'.reinit]_vars

\* A call without flags has returned on a mesh of several ranks whose blocks
\* are at two levels.
C40_Witness ==
  /\ Called /\ xfer.tnref = 0 /\ xfer.tnderef = 0 /\ ~xfer.reinit
  /\ nranks = 2
  /\ \E g \in DOMAIN loclist, h \in DOMAIN loclist : loclist[g].level # loclist[h].level

====
